---- MODULE Spec2Model ----
(***************************************************************************)
(* The pitch designer of football-drill-planner                            *)
(* (src/src/pages/DrillDesignerPage.tsx) as a state machine: the React     *)
(* state of the page is the state, every event handler is one action.      *)
(*                                                                         *)
(* Numbers.  Positions and sizes are percentages of the pitch container.   *)
(* They are kept as integers counting eighths of a percent, so that 0.25   *)
(* (the ball's size) and the halves taken by the shape centre are exact:   *)
(* Pct(n) is the value n percent.  Pointer coordinates are client pixels;  *)
(* with the container rectangle below every pixel is an even number of     *)
(* eighths, so the conversion and the halving of the code are exact.       *)
(***************************************************************************)
EXTENDS Integers, Sequences, FiniteSets, TLC

VARIABLES
    mounted,                 \* the load effect has run
    canvasData,              \* currentStep.canvasData, or null
    currentDrill,            \* the drill the context holds, or null
    now,                     \* the value Date.now() returns
    elements,                \* PitchElement[]
    paths,                   \* DrawingPath[]
    selectedId,              \* instanceId or NoId
    activeTab,
    selectedColor,
    draggedAsset,            \* asset of a palette touch drag, or null
    touchDragPos,            \* client point of that drag, or null
    selectedLineType,        \* asset of the selected line tool, or null
    isDrawing,
    currentLine,             \* points captured by the line gesture
    isDrawingShape,
    drawingShapeType,        \* asset of the selected shape tool, or null
    drawingShapeStart,       \* anchor point, or null
    currentShapeDimensions,  \* box [x, y, width, height], or null
    moveMode,
    deleteMode,
    dragging,                \* instanceIds that have window move/up listeners
    undoRun,                 \* history: the undo calls made in a row, or null
    resizing,                \* the window listeners of the resize gestures
    rotating,                \* the window listeners of the rotate gestures
    isViewMode,              \* the footer toolbar is hidden
    lastEvent,               \* history: "handled", or what the last event was when
                             \* it is one that must change nothing
    saved                    \* history: the collections of the last save, or null

vars == << mounted, canvasData, currentDrill, now, elements, paths, selectedId, activeTab,
           selectedColor, draggedAsset, touchDragPos, selectedLineType,
           isDrawing, currentLine, isDrawingShape, drawingShapeType,
           drawingShapeStart, currentShapeDimensions, moveMode, deleteMode,
           dragging, undoRun, resizing, rotating, isViewMode, lastEvent, saved >>

lineVars == << isDrawing, currentLine >>
shapeVars == << isDrawingShape, drawingShapeStart, currentShapeDimensions >>
touchVars == << draggedAsset, touchDragPos >>
modeVars == << moveMode, deleteMode, selectedLineType, drawingShapeType >>
stepVars == << mounted, canvasData, currentDrill >>

----------------------------------------------------------------------------
(* Bounds of the exploration. *)

MaxElements == 2
MaxClock == 3
MaxPoints == 3
MaxUndos == 4
MaxGestures == 2

----------------------------------------------------------------------------
(* Values. *)

null == [type |-> "null"]
NoId == 0

Pct(n) == 8 * n

Max(a, b) == IF a >= b THEN a ELSE b
Min(a, b) == IF a <= b THEN a ELSE b
Abs(a) == IF a >= 0 THEN a ELSE 0 - a

Front(s) == SubSeq(s, 1, Len(s) - 1)
Last(s) == s[Len(s)]
Range(s) == {s[i] : i \in 1..Len(s)}
Ids(els) == {els[i].instanceId : i \in 1..Len(els)}

COLORS == << "#10b981", "#3b82f6", "#fbbf24", "#ef4444", "#000000", "#ffffff" >>

ASSETS == [
  players |-> <<
    [id |-> "player", type |-> "player", label |-> "Player", width |-> Pct(5), height |-> Pct(4)],
    [id |-> "gk", type |-> "player", label |-> "GK", isGK |-> TRUE, width |-> Pct(5), height |-> Pct(4)],
    [id |-> "defender", type |-> "player", label |-> "Defender", isDefender |-> TRUE, width |-> Pct(5), height |-> Pct(4)],
    [id |-> "x-mark", type |-> "marker", variant |-> "x", label |-> "X", width |-> Pct(5), height |-> Pct(4)],
    [id |-> "circle-empty", type |-> "marker", variant |-> "circle", label |-> "Circle", width |-> Pct(5), height |-> Pct(4)] >>,
  equipment |-> <<
    [id |-> "ball", type |-> "icon", icon |-> "ball", label |-> "Ball", fixedColor |-> TRUE, width |-> Pct(1) \div 4, height |-> Pct(1) \div 4],
    [id |-> "cone", type |-> "equipment", variant |-> "cone", label |-> "Cone", width |-> Pct(4), height |-> Pct(4)],
    [id |-> "marker", type |-> "equipment", variant |-> "marker", label |-> "Disc", width |-> Pct(4), height |-> Pct(4)],
    [id |-> "pole", type |-> "equipment", variant |-> "pole", label |-> "Pole", width |-> Pct(3), height |-> Pct(4)],
    [id |-> "hurdle", type |-> "equipment", variant |-> "hurdle", label |-> "Hurdle", width |-> Pct(8), height |-> Pct(6)],
    [id |-> "5sgoal", type |-> "equipment", variant |-> "5sgoal", label |-> "S Goal Post", width |-> Pct(15), height |-> Pct(8)],
    [id |-> "minigoal", type |-> "equipment", variant |-> "minigoal", label |-> "Goal Post", width |-> Pct(20), height |-> Pct(6)],
    [id |-> "ladder", type |-> "equipment", variant |-> "ladder", label |-> "Ladder", width |-> Pct(15), height |-> Pct(5)] >>,
  shapes |-> <<
    [id |-> "square", type |-> "shape", variant |-> "square", label |-> "Square", width |-> Pct(10), height |-> Pct(10)],
    [id |-> "square-dash", type |-> "shape", variant |-> "square", label |-> "Sq Dot", width |-> Pct(10), height |-> Pct(10), dashed |-> TRUE],
    [id |-> "square-shade", type |-> "shape", variant |-> "square", label |-> "Sq Shade", width |-> Pct(10), height |-> Pct(10), shaded |-> TRUE],
    [id |-> "circle", type |-> "shape", variant |-> "circle", label |-> "Circle", width |-> Pct(10), height |-> Pct(10)],
    [id |-> "circle-dash", type |-> "shape", variant |-> "circle", label |-> "Cir Dot", width |-> Pct(10), height |-> Pct(10), dashed |-> TRUE],
    [id |-> "circle-shade", type |-> "shape", variant |-> "circle", label |-> "Cir Shade", width |-> Pct(10), height |-> Pct(10), shaded |-> TRUE],
    [id |-> "rect", type |-> "shape", variant |-> "rect", label |-> "Rect", width |-> Pct(15), height |-> Pct(8)],
    [id |-> "rect-dash", type |-> "shape", variant |-> "rect", label |-> "Rec Dot", width |-> Pct(15), height |-> Pct(8), dashed |-> TRUE],
    [id |-> "rect-shade", type |-> "shape", variant |-> "rect", label |-> "Rec Shade", width |-> Pct(15), height |-> Pct(8), shaded |-> TRUE] >>,
  arrows |-> <<
    [id |-> "straight-dotted", type |-> "line", lineStyle |-> "dotted", drawMode |-> "straight", label |-> "Dot Line"],
    [id |-> "freehand-dotted", type |-> "line", lineStyle |-> "dotted", drawMode |-> "freehand", label |-> "Dot Free"],
    [id |-> "freehand-solid", type |-> "line", lineStyle |-> "solid", drawMode |-> "freehand", label |-> "Free Line"],
    [id |-> "straight-solid", type |-> "line", lineStyle |-> "solid", drawMode |-> "straight", label |-> "Line"] >> ]

Tabs == DOMAIN ASSETS

Asset(id) == CHOOSE a \in UNION {Range(ASSETS[t]) : t \in Tabs} : a.id = id

(* { ...base, ...over }: the fields of over win. *)
Spread(base, over) ==
    [f \in DOMAIN base \cup DOMAIN over |->
        IF f \in DOMAIN over THEN over[f] ELSE base[f]]

(* obj.f || dflt, for a numeric field that may be absent. *)
FieldOr(obj, f, dflt) ==
    IF f \in DOMAIN obj /\ obj[f] # 0 THEN obj[f] ELSE dflt

(* obj.f || false, for a boolean field that may be absent. *)
Flag(obj, f) == f \in DOMAIN obj /\ obj[f]

----------------------------------------------------------------------------
(* Geometry: client pixels to percent of the container. *)

PitchRect == [left |-> 10, top |-> 20, width |-> 200, height |-> 400]


(* A clamp that forgets the upper end of the range. *)
ClampBelowOnly(v) == Max(0, v)

Clamp(v) == Max(0, Min(Pct(100), v))

(* A conversion that forgets where the container starts. *)
PercentXOfWindow(clientX) == (clientX * Pct(100)) \div PitchRect.width

PercentX(clientX) == ((clientX - PitchRect.left) * Pct(100)) \div PitchRect.width
PercentY(clientY) == ((clientY - PitchRect.top) * Pct(100)) \div PitchRect.height

ClampedPoint(p) == [x |-> Clamp(PercentX(p.x)), y |-> Clamp(PercentY(p.y))]

(* The client pixel that lies at (px, py) percent of the container. *)
At(px, py) == [x |-> PitchRect.left + (px * PitchRect.width) \div 100,
               y |-> PitchRect.top + (py * PitchRect.height) \div 100]

----------------------------------------------------------------------------
(* The step the page was opened on: currentStep.canvasData as stored. *)

(* An element in which the fields of the asset win over the computed ones. *)
NewElementAssetWins(asset, p, id, color) ==
    Spread([instanceId |-> id,
            x |-> Clamp(PercentX(p.x)),
            y |-> Clamp(PercentY(p.y)),
            color |-> IF Flag(asset, "fixedColor") THEN "undefined" ELSE color,
            width |-> FieldOr(asset, "width", Pct(5)),
            height |-> FieldOr(asset, "height", Pct(5)),
            rotation |-> 0],
           asset)

NewElement(asset, p, id, color) ==
    Spread(asset,
           [instanceId |-> id,
            x |-> Clamp(PercentX(p.x)),
            y |-> Clamp(PercentY(p.y)),
            color |-> IF Flag(asset, "fixedColor") THEN "undefined" ELSE color,
            width |-> FieldOr(asset, "width", Pct(5)),
            height |-> FieldOr(asset, "height", Pct(5)),
            rotation |-> 0])

StoredCanvas ==
    [elements |-> << NewElement(Asset("cone"), At(50, 50), 1, COLORS[1]) >>,
     paths |-> << [id |-> 1,
                   points |-> << [x |-> Pct(20), y |-> Pct(20)],
                                 [x |-> Pct(40), y |-> Pct(40)] >>,
                   color |-> "#ffffff",
                   dashed |-> FALSE] >>]

(* The context of the drill.  The page is routed to the step with the id   *)
(* stepId of its URL.                                                       *)
RouteStepId == "step-1"

(* An update that patches every step of the drill. *)
UpdateStepAll(drill, stepId, updatedStep) ==
    IF drill = null THEN drill
    ELSE [drill EXCEPT !.steps =
             [i \in 1..Len(drill.steps) |-> Spread(drill.steps[i], updatedStep)]]

(* updateStep: the drill the context holds after the call. *)
UpdateStep(drill, stepId, updatedStep) ==
    IF drill = null THEN drill
    ELSE [drill EXCEPT !.steps =
             [i \in 1..Len(drill.steps) |->
                 IF drill.steps[i].id = stepId
                   THEN Spread(drill.steps[i], updatedStep)
                   ELSE drill.steps[i]]]

(* currentDrill?.steps.find(step => step.id === stepId), null for          *)
(* undefined.                                                               *)
CurrentStep(drill) ==
    IF drill = null \/ \A i \in 1..Len(drill.steps) : drill.steps[i].id # RouteStepId
      THEN null
      ELSE drill.steps[CHOOSE i \in 1..Len(drill.steps) :
                          /\ drill.steps[i].id = RouteStepId
                          /\ \A j \in 1..(i - 1) : drill.steps[j].id # RouteStepId]

(* currentStep?.canvasData, null for undefined. *)
CanvasOf(drill) ==
    LET currentStep == CurrentStep(drill)
    IN  IF "canvasData" \in DOMAIN currentStep THEN currentStep.canvasData ELSE null

(* A drill of one step, the one the page is routed to. *)
DrillOf(data) ==
    [id |-> "drill-1", title |-> "Drill",
     steps |-> << [id |-> RouteStepId, title |-> "Step 1", canvasData |-> data] >>]

(* The state after construction, the context holding drill. *)
InitOf(drill) ==
    /\ mounted = FALSE
    /\ currentDrill = drill
    /\ canvasData = CanvasOf(drill)
    /\ now = 2
    /\ elements = <<>>
    /\ paths = <<>>
    /\ selectedId = NoId
    /\ activeTab = "players"
    /\ selectedColor = COLORS[1]
    /\ draggedAsset = null
    /\ touchDragPos = null
    /\ selectedLineType = null
    /\ isDrawing = FALSE
    /\ currentLine = <<>>
    /\ isDrawingShape = FALSE
    /\ drawingShapeType = null
    /\ drawingShapeStart = null
    /\ currentShapeDimensions = null
    /\ moveMode = FALSE
    /\ deleteMode = FALSE
    /\ dragging = {}
    /\ undoRun = null
    /\ resizing = <<>>
    /\ rotating = <<>>
    /\ isViewMode = FALSE
    /\ lastEvent = "handled"
    /\ saved = null

(* The state after construction, for a step that stores data. *)
InitWith(data) == InitOf(DrillOf(data))

Init == \E data \in {null, StoredCanvas} : InitWith(data)

(* An event that is no save, no load and no resize gesture, and that a     *)
(* handler of the page receives and acts on.                               *)
OtherEvent ==
    /\ resizing' = resizing
    /\ rotating' = rotating
    /\ isViewMode' = isViewMode
    /\ lastEvent' = "handled"
    /\ saved' = null

----------------------------------------------------------------------------
(* Mount, clock, header buttons. *)

(* if (currentStep && canvasData?.f) set(canvasData.f): the stored list   *)
(* when the step has one, else what the page holds.                        *)
StoredOr(data, f, held) == IF f \in DOMAIN data THEN data[f] ELSE held

(* useEffect(..., [currentStep]): load the stored elements and paths. *)
LoadEffect ==
    /\ ~mounted
    /\ mounted' = TRUE
    /\ elements' = StoredOr(canvasData, "elements", elements)
    /\ paths' = StoredOr(canvasData, "paths", paths)
    /\ UNCHANGED << canvasData, currentDrill, now, selectedId, activeTab, selectedColor,
                    touchVars, lineVars, shapeVars, modeVars, dragging >>
    /\ undoRun' = null
    /\ resizing' = resizing
    /\ rotating' = rotating
    /\ isViewMode' = isViewMode
    /\ lastEvent' = "handled"
    /\ saved' = IF saved = null THEN null ELSE [saved EXCEPT !.loaded = TRUE]

(* Time passes: Date.now() returns a later value. *)
Tick ==
    /\ now < MaxClock
    /\ now' = now + 1
    /\ UNCHANGED << stepVars, elements, paths, selectedId, activeTab, selectedColor,
                    touchVars, lineVars, shapeVars, modeVars, dragging >>
    /\ undoRun' = null
    /\ OtherEvent

HandleClear ==
    /\ mounted
    /\ elements' = <<>>
    /\ paths' = <<>>
    /\ selectedId' = NoId
    /\ UNCHANGED << stepVars, now, activeTab, selectedColor, touchVars, lineVars,
                    shapeVars, modeVars, dragging >>
    /\ undoRun' = null
    /\ OtherEvent

(* History of a run of undo calls: the number of items when the run began *)
(* and the number of calls since.                                          *)
UndoCounted(run, items) ==
    IF run = null
      THEN [type |-> "undos", base |-> items, calls |-> 1]
      ELSE [run EXCEPT !.calls = @ + 1]


(* An undo with two independent ifs in place of the if / else-if. *)
AfterUndoBoth(ps, els) ==
    [paths |-> IF Len(ps) > 0 THEN Front(ps) ELSE ps,
     elements |-> IF Len(els) > 0 THEN Front(els) ELSE els]

(* handleUndo as a function of the two collections. *)
AfterUndo(ps, els) ==
    IF Len(ps) > 0
      THEN [paths |-> Front(ps), elements |-> els]
      ELSE IF Len(els) > 0
             THEN [paths |-> ps, elements |-> Front(els)]
             ELSE [paths |-> ps, elements |-> els]

HandleUndo ==
    /\ mounted
    /\ paths' = AfterUndo(paths, elements).paths
    /\ elements' = AfterUndo(paths, elements).elements
    /\ UNCHANGED << stepVars, now, selectedId, activeTab, selectedColor, touchVars,
                    lineVars, shapeVars, modeVars, dragging >>
    /\ undoRun' = UndoCounted(undoRun, Len(paths) + Len(elements))
    /\ OtherEvent

SelectColor(c) ==
    /\ mounted
    /\ selectedColor' = c
    /\ UNCHANGED << stepVars, now, elements, paths, selectedId, activeTab, touchVars,
                    lineVars, shapeVars, modeVars, dragging >>
    /\ undoRun' = null
    /\ OtherEvent

----------------------------------------------------------------------------
(* Save, and the ways the page comes to load a step. *)

(* The state of a page that is not mounted: the next mount starts from the *)
(* initial values of its useState calls.                                    *)
Unmounted ==
    /\ mounted' = FALSE
    /\ elements' = <<>>
    /\ paths' = <<>>
    /\ selectedId' = NoId
    /\ activeTab' = "players"
    /\ selectedColor' = COLORS[1]
    /\ draggedAsset' = null
    /\ touchDragPos' = null
    /\ selectedLineType' = null
    /\ isDrawing' = FALSE
    /\ currentLine' = <<>>
    /\ isDrawingShape' = FALSE
    /\ drawingShapeType' = null
    /\ drawingShapeStart' = null
    /\ currentShapeDimensions' = null
    /\ moveMode' = FALSE
    /\ deleteMode' = FALSE
    /\ dragging' = {}
    /\ resizing' = <<>>
    /\ rotating' = <<>>
    /\ undoRun' = null
    /\ isViewMode' = FALSE
    /\ lastEvent' = "handled"

(* handleSave: updateStep stores { elements, paths } in the step, then the *)
(* page navigates to the list of steps.                                     *)
HandleSave ==
    /\ mounted
    /\ CurrentStep(currentDrill) # null
    /\ currentDrill' = UpdateStep(currentDrill, RouteStepId,
                                  [canvasData |-> [elements |-> elements, paths |-> paths]])
    /\ canvasData' = [elements |-> elements, paths |-> paths]
    /\ Unmounted
    /\ now' = now
    /\ saved' = [type |-> "save", elements |-> elements, paths |-> paths,
                 loaded |-> FALSE]

(* A text that keeps all but the last item of a list. *)
JsonListCut(list) == [i \in 1..(Len(list) - 1) |-> list[i]]

(* JSON.parse(JSON.stringify(list)) for a list of elements or paths: a key *)
(* whose value is undefined is left out (color is the only one the page    *)
(* sets to undefined, for an asset with fixedColor); numbers, strings,     *)
(* booleans and the lists of points come back as they were.                 *)
JsonList(list) ==
    [i \in 1..Len(list) |->
        LET obj == list[i]
            kept == {f \in DOMAIN obj : ~(f = "color" /\ obj[f] = "undefined")}
        IN  [f \in kept |-> obj[f]]]

Json(data) ==
    [f \in DOMAIN data |-> IF f \in {"elements", "paths"} THEN JsonList(data[f]) ELSE data[f]]

(* JSON.parse(JSON.stringify(currentDrill)) *)
JsonDrill(drill) ==
    IF drill = null THEN drill
    ELSE [drill EXCEPT !.steps =
             [i \in 1..Len(drill.steps) |->
                 IF "canvasData" \in DOMAIN drill.steps[i]
                   THEN [drill.steps[i] EXCEPT !.canvasData = Json(@)]
                   ELSE drill.steps[i]]]

(* The page is loaded anew: the drill comes back from localStorage, where  *)
(* the provider's effect wrote it with JSON.stringify(currentDrill).        *)
Reload ==
    /\ canvasData' = Json(canvasData)
    /\ currentDrill' = JsonDrill(currentDrill)
    /\ Unmounted
    /\ now' = now
    /\ saved' = IF saved # null /\ ~saved.loaded THEN saved ELSE null

(* The route moves to another step of the drill while the page stays       *)
(* mounted (same route, other stepId): currentStep changes, the load       *)
(* effect runs again; data is what that step stores.                        *)
StepChange(data) ==
    /\ mounted
    /\ data # canvasData
    /\ canvasData' = data
    /\ currentDrill' = UpdateStep(currentDrill, RouteStepId, [canvasData |-> data])
    /\ elements' = StoredOr(data, "elements", elements)
    /\ paths' = StoredOr(data, "paths", paths)
    /\ UNCHANGED << mounted, now, selectedId, activeTab, selectedColor, touchVars,
                    lineVars, shapeVars, modeVars, dragging >>
    /\ undoRun' = null
    /\ OtherEvent

----------------------------------------------------------------------------
(* Placement from the palette: native drag and drop, and the touch fallback. *)

(* addElementToPitch: what it assigns to elements and selectedId. *)
AddElementToPitch(asset, p) ==
    /\ elements' = Append(elements, NewElement(asset, p, now, selectedColor))
    /\ selectedId' = NoId

Placeable(asset) ==
    /\ asset \in Range(ASSETS[activeTab])
    /\ asset.type # "line"
    /\ asset.type # "shape"

(* onDrop of the pitch with the payload handleDragStart attached. *)
HandleDrop(asset, p) ==
    /\ mounted
    /\ Placeable(asset)
    /\ AddElementToPitch(asset, p)
    /\ UNCHANGED << stepVars, now, paths, activeTab, selectedColor, touchVars,
                    lineVars, shapeVars, modeVars, dragging >>
    /\ undoRun' = null
    /\ OtherEvent

(* A parse that makes an object of whatever it is given. *)
ParsedLoosely(data) ==
    IF data.kind = "json" /\ data.value # null THEN data.value ELSE [type |-> "unknown"]

(* What handleDrop gets out of the 'application/json' data of the drag:    *)
(* the parsed object, or null when there is nothing to place (the data is  *)
(* empty, JSON.parse throws, or it parses to null and addElementToPitch    *)
(* throws on asset.fixedColor before it sets anything; the catch block     *)
(* logs both).                                                             *)
Parsed(data) ==
    IF data.kind = "json" THEN data.value ELSE null

(* handleDrop with the data of any drag, from the palette or from outside  *)
(* the page.                                                               *)
HandleDropData(data, p) ==
    /\ mounted
    /\ IF Parsed(data) # null
         THEN AddElementToPitch(Parsed(data), p)
         ELSE UNCHANGED << elements, selectedId >>
    /\ UNCHANGED << stepVars, now, paths, activeTab, selectedColor, touchVars,
                    lineVars, shapeVars, modeVars, dragging >>
    /\ undoRun' = null
    /\ resizing' = resizing
    /\ rotating' = rotating
    /\ isViewMode' = isViewMode
    /\ lastEvent' = IF data.kind = "text" THEN "dropRejected" ELSE "handled"
    /\ saved' = null

(* onTouchStart of a palette tile. *)
HandleTouchStart(asset, p) ==
    /\ mounted
    /\ Placeable(asset)
    /\ draggedAsset' = asset
    /\ touchDragPos' = p
    /\ UNCHANGED << stepVars, now, elements, paths, selectedId, activeTab,
                    selectedColor, lineVars, shapeVars, modeVars, dragging >>
    /\ undoRun' = null
    /\ OtherEvent

(* handleTouchMove: the preview follows the touch. *)
HandleTouchMove(p) ==
    touchDragPos' = IF draggedAsset # null THEN p ELSE touchDragPos

(* handleTouchEnd: place the dragged asset at the point of release. *)
HandleTouchEnd(p) ==
    IF draggedAsset # null
      THEN /\ AddElementToPitch(draggedAsset, p)
           /\ draggedAsset' = null
           /\ touchDragPos' = null
      ELSE /\ UNCHANGED << elements, selectedId, touchVars >>

----------------------------------------------------------------------------
(* Element drag, delete and the mode toggles. *)

(* A drag that moves the first element when the dragged one is gone. *)
DraggedOrFirst(els, instanceId, p) ==
    [i \in 1..Len(els) |->
        IF \/ els[i].instanceId = instanceId
           \/ i = 1 /\ \A k \in 1..Len(els) : els[k].instanceId # instanceId
          THEN Spread(els[i], [x |-> Clamp(PercentX(p.x)), y |-> Clamp(PercentY(p.y))])
          ELSE els[i]]

(* handleElementDrag: the elements after the move event. *)
Dragged(els, instanceId, p) ==
    [i \in 1..Len(els) |->
        IF els[i].instanceId = instanceId
          THEN Spread(els[i], [x |-> Clamp(PercentX(p.x)), y |-> Clamp(PercentY(p.y))])
          ELSE els[i]]

(* handleDeleteElement: the elements after the delete. *)
Deleted(els, instanceId) == SelectSeq(els, LAMBDA el : el.instanceId # instanceId)

(* A delete toggle that keeps the selection. *)
ToggleDeleteModeKeeping ==
    /\ mounted
    /\ deleteMode' = ~deleteMode
    /\ moveMode' = FALSE
    /\ selectedLineType' = null
    /\ drawingShapeType' = null
    /\ UNCHANGED << stepVars, now, elements, paths, selectedId, activeTab,
                    selectedColor, touchVars, lineVars, shapeVars, dragging >>
    /\ undoRun' = null
    /\ OtherEvent

ToggleMoveMode ==
    /\ mounted
    /\ moveMode' = ~moveMode
    /\ deleteMode' = FALSE
    /\ selectedLineType' = null
    /\ drawingShapeType' = null
    /\ selectedId' = NoId
    /\ UNCHANGED << stepVars, now, elements, paths, activeTab, selectedColor,
                    touchVars, lineVars, shapeVars, dragging >>
    /\ undoRun' = null
    /\ OtherEvent

ToggleDeleteMode ==
    /\ mounted
    /\ deleteMode' = ~deleteMode
    /\ moveMode' = FALSE
    /\ selectedLineType' = null
    /\ drawingShapeType' = null
    /\ selectedId' = NoId
    /\ UNCHANGED << stepVars, now, elements, paths, activeTab, selectedColor,
                    touchVars, lineVars, shapeVars, dragging >>
    /\ undoRun' = null
    /\ OtherEvent

(* onClick of the View / Edit button of the header. *)
ToggleViewMode ==
    /\ mounted
    /\ isViewMode' = ~isViewMode
    /\ UNCHANGED << stepVars, now, elements, paths, selectedId, activeTab,
                    selectedColor, touchVars, lineVars, shapeVars, modeVars,
                    dragging, resizing, rotating >>
    /\ undoRun' = null
    /\ lastEvent' = "handled"
    /\ saved' = null

(* onClick of a rendered element (not a line). *)
ElementClick(i) ==
    /\ mounted
    /\ i \in 1..Len(elements)
    /\ elements[i].type # "line"
    /\ IF deleteMode
         THEN /\ elements' = Deleted(elements, elements[i].instanceId)
              /\ selectedId' = selectedId
         ELSE /\ elements' = elements
              /\ selectedId' = IF ~moveMode THEN elements[i].instanceId ELSE selectedId
    /\ UNCHANGED << stepVars, now, paths, activeTab, selectedColor, touchVars,
                    lineVars, shapeVars, modeVars, dragging >>
    /\ undoRun' = null
    /\ OtherEvent

(* onClick of the hit area of a rendered line. *)
LineClick(i) ==
    /\ mounted
    /\ i \in 1..Len(elements)
    /\ elements[i].type = "line"
    /\ "points" \in DOMAIN elements[i]
    /\ Len(elements[i].points) >= 2
    /\ IF deleteMode
         THEN /\ elements' = Deleted(elements, elements[i].instanceId)
              /\ selectedId' = selectedId
         ELSE /\ elements' = elements
              /\ selectedId' = elements[i].instanceId
    /\ UNCHANGED << stepVars, now, paths, activeTab, selectedColor, touchVars,
                    lineVars, shapeVars, modeVars, dragging >>
    /\ undoRun' = null
    /\ OtherEvent

(* onMouseDown / onTouchStart of a rendered element in move or delete mode *)
(* (in neither mode the event is left to the pitch, see PitchDown).         *)
ElementDown(i) ==
    /\ mounted
    /\ i \in 1..Len(elements)
    /\ elements[i].type # "line"
    /\ moveMode \/ deleteMode
    /\ IF deleteMode
         THEN UNCHANGED << selectedId, dragging >>
         ELSE /\ selectedId' = elements[i].instanceId
              /\ dragging' = dragging \cup {elements[i].instanceId}
    /\ UNCHANGED << stepVars, now, elements, paths, activeTab, selectedColor,
                    touchVars, lineVars, shapeVars, modeVars >>
    /\ undoRun' = null
    /\ OtherEvent

RECURSIVE DraggedAll(_, _, _)
DraggedAll(els, ids, p) ==
    IF ids = {} THEN els
    ELSE LET id == CHOOSE d \in ids : TRUE
         IN  DraggedAll(Dragged(els, id, p), ids \ {id}, p)

(* A move event on the window: every registered move listener runs. *)
WindowMove(p) ==
    /\ dragging # {}
    /\ elements' = DraggedAll(elements, dragging, p)
    /\ UNCHANGED << stepVars, now, paths, selectedId, activeTab, selectedColor,
                    touchVars, lineVars, shapeVars, modeVars, dragging >>
    /\ undoRun' = null
    /\ OtherEvent

(* An up event on the window: every up listener removes its pair. *)
WindowUp ==
    /\ dragging # {}
    /\ dragging' = {}
    /\ UNCHANGED << stepVars, now, elements, paths, selectedId, activeTab,
                    selectedColor, touchVars, lineVars, shapeVars, modeVars >>
    /\ undoRun' = null
    /\ OtherEvent

(* A touchcancel event on the window: the gestures register touchmove and *)
(* touchend (mousemove and mouseup) only, so no listener runs.             *)
TouchCancel ==
    /\ mounted
    /\ UNCHANGED << stepVars, now, elements, paths, selectedId, activeTab,
                    selectedColor, touchVars, lineVars, shapeVars, modeVars,
                    dragging, resizing, rotating >>
    /\ undoRun' = null
    /\ isViewMode' = isViewMode
    /\ lastEvent' = "touchCancelled"
    /\ saved' = null

----------------------------------------------------------------------------
(* Line drawing. *)

HandleLineDrawStart(p) ==
    IF selectedLineType = null \/ selectedLineType.type # "line"
      THEN UNCHANGED lineVars
      ELSE /\ isDrawing' = TRUE
           /\ currentLine' = << ClampedPoint(p) >>

(* A capture that keeps the first point and the latest one only. *)
LineAfterMoveLatest(line, drawMode, p) == << line[1], ClampedPoint(p) >>

(* The capture after a move event at p. *)
LineAfterMove(line, drawMode, p) ==
    IF drawMode = "freehand"
      THEN Append(line, ClampedPoint(p))
      ELSE << line[1], ClampedPoint(p) >>

HandleLineDrawMove(p) ==
    IF ~isDrawing \/ selectedLineType = null
      THEN UNCHANGED lineVars
      ELSE /\ currentLine' = LineAfterMove(currentLine, selectedLineType.drawMode, p)
           /\ isDrawing' = isDrawing

NewLine(tool, line, id) ==
    [instanceId |-> id,
     id |-> tool.id,
     type |-> "line",
     x |-> line[1].x,
     y |-> line[1].y,
     color |-> "#000000",
     points |-> line,
     lineStyle |-> tool.lineStyle,
     drawMode |-> tool.drawMode]


(* A guard that does not look at the length of the capture. *)
LineCommitsAnyLength == isDrawing /\ selectedLineType # null

(* The guard of handleLineDrawEnd: the gesture is committed. *)
LineCommits == isDrawing /\ selectedLineType # null /\ Len(currentLine) >= 2

HandleLineDrawEnd ==
    /\ IF LineCommits
         THEN /\ elements' = Append(elements, NewLine(selectedLineType, currentLine, now))
         ELSE /\ elements' = elements
    /\ isDrawing' = FALSE
    /\ currentLine' = <<>>

----------------------------------------------------------------------------
(* Shape drawing. *)

HandleShapeDrawStart(p) ==
    IF drawingShapeType = null \/ drawingShapeType.type # "shape"
      THEN UNCHANGED shapeVars
      ELSE /\ isDrawingShape' = TRUE
           /\ drawingShapeStart' = ClampedPoint(p)
           /\ currentShapeDimensions' =
                 [x |-> Clamp(PercentX(p.x)), y |-> Clamp(PercentY(p.y)),
                  width |-> 0, height |-> 0]

(* A box that always has the anchor as its corner. *)
BoxFromStart(start, p) ==
    [x |-> start.x,
     y |-> start.y,
     width |-> Abs(Clamp(PercentX(p.x)) - start.x),
     height |-> Abs(Clamp(PercentY(p.y)) - start.y)]

(* The box between the anchor and the pointer. *)
BoxBetween(start, p) ==
    [x |-> Min(start.x, Clamp(PercentX(p.x))),
     y |-> Min(start.y, Clamp(PercentY(p.y))),
     width |-> Abs(Clamp(PercentX(p.x)) - start.x),
     height |-> Abs(Clamp(PercentY(p.y)) - start.y)]

HandleShapeDrawMove(p) ==
    IF ~isDrawingShape \/ drawingShapeStart = null
      THEN UNCHANGED shapeVars
      ELSE /\ currentShapeDimensions' = BoxBetween(drawingShapeStart, p)
           /\ UNCHANGED << isDrawingShape, drawingShapeStart >>


(* A guard that does not look at the height of the box. *)
ShapeCommitsWidthOnly ==
    /\ isDrawingShape
    /\ drawingShapeType # null
    /\ currentShapeDimensions # null
    /\ ~(currentShapeDimensions.width < Pct(1))

(* The guard of handleShapeDrawEnd: the gesture is committed. *)
ShapeCommits ==
    /\ isDrawingShape
    /\ drawingShapeType # null
    /\ currentShapeDimensions # null
    /\ ~(currentShapeDimensions.width < Pct(1))
    /\ ~(currentShapeDimensions.height < Pct(1))

NewShape(tool, box, id, color) ==
    [instanceId |-> id,
     id |-> tool.id,
     type |-> "shape",
     variant |-> tool.variant,
     x |-> box.x + box.width \div 2,
     y |-> box.y + box.height \div 2,
     width |-> box.width,
     height |-> box.height,
     color |-> color,
     dashed |-> Flag(tool, "dashed"),
     shaded |-> Flag(tool, "shaded"),
     rotation |-> 0]

HandleShapeDrawEnd ==
    /\ IF ShapeCommits
         THEN /\ elements' = Append(elements,
                    NewShape(drawingShapeType, currentShapeDimensions, now, selectedColor))
              /\ drawingShapeType' = null
         ELSE /\ elements' = elements
              /\ drawingShapeType' = drawingShapeType
    /\ isDrawingShape' = FALSE
    /\ drawingShapeStart' = null
    /\ currentShapeDimensions' = null

----------------------------------------------------------------------------
(* The handlers of the pitch container. *)

(* onMouseDown / onTouchStart *)
PitchDown(p) ==
    /\ mounted
    /\ IF selectedLineType # null
         THEN HandleLineDrawStart(p) /\ UNCHANGED shapeVars
         ELSE IF drawingShapeType # null
                THEN HandleShapeDrawStart(p) /\ UNCHANGED lineVars
                ELSE UNCHANGED << lineVars, shapeVars >>
    /\ UNCHANGED << stepVars, now, elements, paths, selectedId, activeTab,
                    selectedColor, touchVars, modeVars, dragging >>
    /\ undoRun' = null
    /\ OtherEvent

(* onMouseMove / onTouchMove *)
PitchMove(p) ==
    /\ mounted
    /\ IF isDrawing
         THEN HandleLineDrawMove(p) /\ UNCHANGED << shapeVars, touchDragPos >>
         ELSE IF isDrawingShape
                THEN HandleShapeDrawMove(p) /\ UNCHANGED << lineVars, touchDragPos >>
                ELSE HandleTouchMove(p) /\ UNCHANGED << lineVars, shapeVars >>
    /\ UNCHANGED << stepVars, now, elements, paths, selectedId, activeTab,
                    selectedColor, draggedAsset, modeVars, dragging >>
    /\ undoRun' = null
    /\ OtherEvent

(* onMouseUp *)
PitchMouseUp ==
    /\ mounted
    /\ IF isDrawing
         THEN HandleLineDrawEnd /\ UNCHANGED << shapeVars, drawingShapeType >>
         ELSE IF isDrawingShape
                THEN HandleShapeDrawEnd /\ UNCHANGED lineVars
                ELSE UNCHANGED << elements, lineVars, shapeVars, drawingShapeType >>
    /\ UNCHANGED << stepVars, now, paths, selectedId, activeTab, selectedColor,
                    touchVars, moveMode, deleteMode, selectedLineType, dragging >>
    /\ undoRun' = null
    /\ OtherEvent

(* onTouchEnd *)
PitchTouchEnd(p) ==
    /\ mounted
    /\ IF isDrawing
         THEN /\ HandleLineDrawEnd
              /\ UNCHANGED << shapeVars, drawingShapeType, selectedId, touchVars >>
         ELSE IF isDrawingShape
                THEN /\ HandleShapeDrawEnd
                     /\ UNCHANGED << lineVars, selectedId, touchVars >>
                ELSE /\ HandleTouchEnd(p)
                     /\ UNCHANGED << lineVars, shapeVars, drawingShapeType >>
    /\ UNCHANGED << stepVars, now, paths, activeTab, selectedColor, moveMode,
                    deleteMode, selectedLineType, dragging >>
    /\ undoRun' = null
    /\ OtherEvent

(* The pointer leaves the pitch, is released outside it, or the touch is  *)
(* cancelled: the container has no onMouseLeave, onTouchCancel or window   *)
(* listener for a capture, so no handler runs.                              *)
PointerLost ==
    /\ mounted
    /\ UNCHANGED << stepVars, now, elements, paths, selectedId, activeTab,
                    selectedColor, touchVars, lineVars, shapeVars, modeVars,
                    dragging, resizing, rotating >>
    /\ undoRun' = null
    /\ isViewMode' = isViewMode
    /\ lastEvent' = "pointerLost"
    /\ saved' = null

(* onClick *)
PitchClick ==
    /\ mounted
    /\ IF ~isDrawing /\ ~isDrawingShape
         THEN /\ selectedId' = NoId
              /\ moveMode' = FALSE
              /\ deleteMode' = FALSE
         ELSE UNCHANGED << selectedId, moveMode, deleteMode >>
    /\ UNCHANGED << stepVars, now, elements, paths, activeTab, selectedColor,
                    touchVars, lineVars, shapeVars, selectedLineType,
                    drawingShapeType, dragging >>
    /\ undoRun' = null
    /\ OtherEvent

----------------------------------------------------------------------------
(* The toolbar: tabs and palette tiles. *)

TabClick(tab) ==
    /\ mounted
    /\ activeTab' = tab
    /\ draggedAsset' = null
    /\ touchDragPos' = null
    /\ selectedLineType' = IF tab # "arrows" THEN null ELSE selectedLineType
    /\ UNCHANGED << stepVars, now, elements, paths, selectedId, selectedColor,
                    lineVars, shapeVars, moveMode, deleteMode, drawingShapeType,
                    dragging >>
    /\ undoRun' = null
    /\ OtherEvent

(* onClick of a palette tile. *)
PaletteClick(asset) ==
    /\ mounted
    /\ asset \in Range(ASSETS[activeTab])
    /\ IF asset.type = "line"
         THEN /\ selectedLineType' = asset
              /\ drawingShapeType' = null
              /\ UNCHANGED << moveMode, deleteMode >>
         ELSE IF asset.type = "shape"
                THEN /\ drawingShapeType' = asset
                     /\ selectedLineType' = null
                     /\ moveMode' = FALSE
                     /\ deleteMode' = FALSE
                ELSE UNCHANGED modeVars
    /\ UNCHANGED << stepVars, now, elements, paths, selectedId, activeTab,
                    selectedColor, touchVars, lineVars, shapeVars, dragging >>
    /\ undoRun' = null
    /\ OtherEvent

----------------------------------------------------------------------------
(* The variant of the page with transformation handles                     *)
(* (DrillDesignerPage.tsx.broken): a selected element shows a reset, a      *)
(* rotate and a delete handle, a selected shape a resize handle as well.    *)

BrokenASSETS == [
  players |-> <<
    [id |-> "player", type |-> "player", label |-> "Player", width |-> Pct(5), height |-> Pct(4)],
    [id |-> "gk", type |-> "player", label |-> "GK", isGK |-> TRUE, width |-> Pct(5), height |-> Pct(4)] >>,
  equipment |-> <<
    [id |-> "ball", type |-> "icon", icon |-> "ball", label |-> "Ball", fixedColor |-> TRUE, width |-> Pct(4), height |-> Pct(4)],
    [id |-> "cone", type |-> "equipment", variant |-> "cone", label |-> "Cone", width |-> Pct(4), height |-> Pct(4)],
    [id |-> "marker", type |-> "equipment", variant |-> "marker", label |-> "Marker", width |-> Pct(4), height |-> Pct(4)],
    [id |-> "pole", type |-> "equipment", variant |-> "pole", label |-> "Pole", width |-> Pct(2), height |-> Pct(4)],
    [id |-> "hurdle", type |-> "equipment", variant |-> "hurdle", label |-> "Hurdle", width |-> Pct(6), height |-> Pct(4)],
    [id |-> "minigoal", type |-> "equipment", variant |-> "minigoal", label |-> "Goal", width |-> Pct(10), height |-> Pct(6)],
    [id |-> "ladder", type |-> "equipment", variant |-> "ladder", label |-> "Ladder", width |-> Pct(15), height |-> Pct(5)] >>,
  shapes |-> <<
    [id |-> "arrow", type |-> "shape", variant |-> "arrow", label |-> "Arrow", width |-> Pct(10), height |-> Pct(10)],
    [id |-> "arrow-dash", type |-> "shape", variant |-> "arrow", label |-> "Arr Dot", width |-> Pct(10), height |-> Pct(10), dashed |-> TRUE],
    [id |-> "square", type |-> "shape", variant |-> "square", label |-> "Square", width |-> Pct(10), height |-> Pct(10)],
    [id |-> "square-dash", type |-> "shape", variant |-> "square", label |-> "Sq Dot", width |-> Pct(10), height |-> Pct(10), dashed |-> TRUE],
    [id |-> "circle", type |-> "shape", variant |-> "circle", label |-> "Circle", width |-> Pct(10), height |-> Pct(10)],
    [id |-> "circle-dash", type |-> "shape", variant |-> "circle", label |-> "Cir Dot", width |-> Pct(10), height |-> Pct(10), dashed |-> TRUE],
    [id |-> "rect", type |-> "shape", variant |-> "rect", label |-> "Rect", width |-> Pct(15), height |-> Pct(8)],
    [id |-> "rect-dash", type |-> "shape", variant |-> "rect", label |-> "Rec Dot", width |-> Pct(15), height |-> Pct(8), dashed |-> TRUE],
    [id |-> "cross", type |-> "shape", variant |-> "cross", label |-> "X", width |-> Pct(8), height |-> Pct(8)] >> ]

BrokenAsset(id) ==
    CHOOSE a \in UNION {Range(BrokenASSETS[t]) : t \in DOMAIN BrokenASSETS} : a.id = id

(* elements.find(el => el.instanceId === instanceId): the first, or null. *)
Find(els, instanceId) ==
    IF \E i \in 1..Len(els) : els[i].instanceId = instanceId
      THEN els[CHOOSE i \in 1..Len(els) :
                  /\ els[i].instanceId = instanceId
                  /\ \A j \in 1..(i - 1) : els[j].instanceId # instanceId]
      ELSE null

(* onClick of a palette tile: addElementToPitch at the centre of the       *)
(* window (the client point p); the new element is selected.                *)
PaletteAdd(asset, p) ==
    /\ mounted
    /\ asset \in Range(BrokenASSETS[activeTab])
    /\ elements' = Append(elements, NewElement(asset, p, now, selectedColor))
    /\ selectedId' = now
    /\ UNCHANGED << stepVars, now, paths, activeTab, selectedColor, touchVars,
                    lineVars, shapeVars, modeVars, dragging >>
    /\ undoRun' = null
    /\ OtherEvent

(* The tabs of the palette. *)
SetActiveTab(tab) ==
    /\ mounted
    /\ tab \in DOMAIN BrokenASSETS
    /\ activeTab' = tab
    /\ UNCHANGED << stepVars, now, elements, paths, selectedId, selectedColor,
                    touchVars, lineVars, shapeVars, modeVars, dragging >>
    /\ undoRun' = null
    /\ OtherEvent

(* onClick of an element: it becomes the selected one. *)
ElementSelect(i) ==
    /\ mounted
    /\ i \in 1..Len(elements)
    /\ selectedId' = elements[i].instanceId
    /\ UNCHANGED << stepVars, now, elements, paths, activeTab, selectedColor,
                    touchVars, lineVars, shapeVars, modeVars, dragging >>
    /\ undoRun' = null
    /\ OtherEvent

(* removeElement, from the delete handle of the selected element. *)
RemoveElement(i) ==
    /\ mounted
    /\ i \in 1..Len(elements)
    /\ elements[i].instanceId = selectedId
    /\ elements' = Deleted(elements, elements[i].instanceId)
    /\ selectedId' = NoId
    /\ UNCHANGED << stepVars, now, paths, activeTab, selectedColor, touchVars,
                    lineVars, shapeVars, modeVars, dragging >>
    /\ undoRun' = null
    /\ OtherEvent

MAX_WIDTH == Pct(30)
MAX_HEIGHT == Pct(30)

(* A size limit that forgets the maximum. *)
ClampSizeNoMax(v, max) == Max(Pct(2), v)

(* Math.max(2, Math.min(v, max)) *)
ClampSize(v, max) == Max(Pct(2), Min(v, max))

(* The pointer offset from the start of the gesture, in percent. *)
DeltaXPercent(start, p) == ((p.x - start.x) * Pct(100)) \div PitchRect.width
DeltaYPercent(start, p) == ((p.y - start.y) * Pct(100)) \div PitchRect.height

(* handleResize: mouse down or touch start at p on the resize handle of    *)
(* the selected shape; what the closure of its listeners captures.          *)
HandleResize(i, p, direction) ==
    /\ mounted
    /\ i \in 1..Len(elements)
    /\ elements[i].instanceId = selectedId
    /\ elements[i].type = "shape"
    /\ LET element == Find(elements, elements[i].instanceId)
       IN  resizing' = Append(resizing,
               [instanceId |-> elements[i].instanceId,
                start |-> p,
                initialWidth |-> FieldOr(element, "width", Pct(5)),
                initialHeight |-> FieldOr(element, "height", Pct(5)),
                direction |-> direction])
    /\ UNCHANGED << stepVars, now, elements, paths, selectedId, activeTab,
                    selectedColor, touchVars, lineVars, shapeVars, modeVars,
                    dragging, rotating >>
    /\ undoRun' = null
    /\ isViewMode' = isViewMode
    /\ lastEvent' = "handled"
    /\ saved' = null

(* handleMove of one resize gesture, the pointer being at p. *)
Resized(els, gesture, p) ==
    [i \in 1..Len(els) |->
        IF els[i].instanceId # gesture.instanceId
          THEN els[i]
          ELSE LET newWidth == IF "e" \in gesture.direction
                                 THEN gesture.initialWidth + DeltaXPercent(gesture.start, p)
                                 ELSE gesture.initialWidth
                   newHeight == IF "s" \in gesture.direction
                                  THEN gesture.initialHeight + DeltaYPercent(gesture.start, p)
                                  ELSE gesture.initialHeight
               IN  Spread(els[i], [width |-> ClampSize(newWidth, MAX_WIDTH),
                                   height |-> ClampSize(newHeight, MAX_HEIGHT)])]

RECURSIVE ResizedAll(_, _, _)
ResizedAll(els, gestures, p) ==
    IF gestures = <<>> THEN els
    ELSE ResizedAll(Resized(els, gestures[1], p), Tail(gestures), p)

(* Rotation.  Angles are whole degrees, client positions quarter pixels.   *)

(* A rotation that turns the element on from the rotation it has. *)
RotatedFurther(els, instanceId, adjustedDegrees) ==
    [i \in 1..Len(els) |->
        IF els[i].instanceId = instanceId
          THEN Spread(els[i], [rotation |-> FieldOr(els[i], "rotation", 0) + adjustedDegrees])
          ELSE els[i]]

(* handleMove of a rotate gesture: the elements after a move event that   *)
(* gives the angle adjustedDegrees.                                         *)
Rotated(els, instanceId, adjustedDegrees) ==
    [i \in 1..Len(els) |->
        IF els[i].instanceId = instanceId
          THEN Spread(els[i], [rotation |-> adjustedDegrees])
          ELSE els[i]]

(* The arc tangent of n / d for 0 <= n <= d, in thousandths of a degree:   *)
(* 45 z + 15.64 z (1 - z), within 0.22 degrees of the angle, exact at 0    *)
(* and at 1.                                                                *)
AtanUnit(n, d) == (45000 * n) \div d + (((15640 * n) \div d) * (d - n)) \div d

(* Math.atan2(y, x) * (180 / Math.PI), in thousandths of a degree. *)
Atan2(y, x) ==
    IF x = 0 /\ y = 0 THEN 0
    ELSE LET first == IF Abs(y) <= Abs(x) THEN AtanUnit(Abs(y), Abs(x))
                                          ELSE 90000 - AtanUnit(Abs(x), Abs(y))
             upper == IF x >= 0 THEN first ELSE 180000 - first
         IN  IF y >= 0 THEN upper ELSE 0 - upper

(* rect.left + (element.x / 100) * rect.width, and the same downwards. *)
CenterX(element) == 4 * PitchRect.left + (element.x * PitchRect.width * 4) \div Pct(100)
CenterY(element) == 4 * PitchRect.top + (element.y * PitchRect.height * 4) \div Pct(100)

(* degrees + 90 for the pointer at p and the centre of the gesture. *)
AdjustedDegrees(center, p) ==
    (Atan2(4 * p.y - center.y, 4 * p.x - center.x) \div 1000) + 90

(* handleRotate: mouse down or touch start on the rotate handle of the     *)
(* selected element; the closure of its listeners captures the centre.     *)
HandleRotate(i) ==
    /\ mounted
    /\ i \in 1..Len(elements)
    /\ elements[i].instanceId = selectedId
    /\ LET element == Find(elements, elements[i].instanceId)
       IN  rotating' = Append(rotating,
               [instanceId |-> elements[i].instanceId,
                center |-> [x |-> CenterX(element), y |-> CenterY(element)]])
    /\ UNCHANGED << stepVars, now, elements, paths, selectedId, activeTab,
                    selectedColor, touchVars, lineVars, shapeVars, modeVars,
                    dragging, resizing >>
    /\ undoRun' = null
    /\ isViewMode' = isViewMode
    /\ lastEvent' = "handled"
    /\ saved' = null

RECURSIVE RotatedAll(_, _, _)
RotatedAll(els, gestures, p) ==
    IF gestures = <<>> THEN els
    ELSE RotatedAll(Rotated(els, gestures[1].instanceId,
                            AdjustedDegrees(gestures[1].center, p)),
                    Tail(gestures), p)

(* The elements after a move event on the window at p: the handleMove of   *)
(* every registered gesture runs.  touched is the element a touch move      *)
(* started in (its onTouchMove drags it), NoId for a mouse move.            *)
Moved(els, p, touched) ==
    RotatedAll(ResizedAll(DraggedAll(els, dragging \cup ({touched} \ {NoId}), p),
                          resizing, p),
               rotating, p)

(* A mouse move or touch move on the window at p during a resize gesture. *)
ResizeMove(p, touched) ==
    /\ resizing # <<>>
    /\ touched = NoId \/ \E k \in 1..Len(resizing) : resizing[k].instanceId = touched
    /\ elements' = Moved(elements, p, touched)
    /\ UNCHANGED << stepVars, now, paths, selectedId, activeTab, selectedColor,
                    touchVars, lineVars, shapeVars, modeVars, dragging, resizing, rotating >>
    /\ undoRun' = null
    /\ isViewMode' = isViewMode
    /\ lastEvent' = "handled"
    /\ saved' = null

(* A mouse up or touch end on the window: every handleUp removes its       *)
(* listeners.                                                               *)
ResizeUp ==
    /\ resizing # <<>>
    /\ resizing' = <<>>
    /\ rotating' = <<>>
    /\ dragging' = {}
    /\ UNCHANGED << stepVars, now, elements, paths, selectedId, activeTab,
                    selectedColor, touchVars, lineVars, shapeVars, modeVars >>
    /\ undoRun' = null
    /\ isViewMode' = isViewMode
    /\ lastEvent' = "handled"
    /\ saved' = null

(* The variant of an element or asset, undefined when it has none. *)
Variant(obj) == IF "variant" \in DOMAIN obj THEN obj.variant ELSE "undefined"

(* A search that takes the first asset of the element's type. *)
FindAssetByType(list, element) ==
    IF \E k \in 1..Len(list) : list[k].type = element.type
      THEN list[CHOOSE k \in 1..Len(list) :
                   /\ list[k].type = element.type
                   /\ \A j \in 1..(k - 1) : list[j].type # element.type]
      ELSE null

(* list.find(a => a.id === element.id || (a.type === element.type &&       *)
(*                a.variant === element.variant)): the first, or null.      *)
FindAsset(list, element) ==
    LET Matches(a) == \/ a.id = element.id
                      \/ a.type = element.type /\ Variant(a) = Variant(element)
    IN  IF \E k \in 1..Len(list) : Matches(list[k])
          THEN list[CHOOSE k \in 1..Len(list) :
                       /\ Matches(list[k])
                       /\ \A j \in 1..(k - 1) : ~Matches(list[j])]
          ELSE null

(* Object.values(ASSETS).forEach(...): the match of the last list that has *)
(* one, or null.                                                            *)
OriginalAsset(element) ==
    IF FindAsset(BrokenASSETS.shapes, element) # null
      THEN FindAsset(BrokenASSETS.shapes, element)
      ELSE IF FindAsset(BrokenASSETS.equipment, element) # null
             THEN FindAsset(BrokenASSETS.equipment, element)
             ELSE FindAsset(BrokenASSETS.players, element)

(* A reset that turns the element back by a quarter instead of to 0. *)
AfterResetTurning(els, instanceId) ==
    [i \in 1..Len(els) |->
        IF els[i].instanceId = instanceId
          THEN Spread(els[i], [rotation |-> (els[i].rotation + 270) % 360])
          ELSE els[i]]

(* handleReset as a function of the collection. *)
AfterReset(els, instanceId) ==
    LET element == Find(els, instanceId)
        originalAsset == IF element = null THEN null ELSE OriginalAsset(element)
    IN  IF element = null \/ originalAsset = null
          THEN els
          ELSE [i \in 1..Len(els) |->
                   IF els[i].instanceId = instanceId
                     THEN Spread(els[i],
                                 [width |-> FieldOr(originalAsset, "width", Pct(5)),
                                  height |-> FieldOr(originalAsset, "height", Pct(5)),
                                  rotation |-> 0])
                     ELSE els[i]]

(* Mouse down or touch start on the reset handle of the selected element. *)
HandleReset(i) ==
    /\ mounted
    /\ i \in 1..Len(elements)
    /\ elements[i].instanceId = selectedId
    /\ elements' = AfterReset(elements, elements[i].instanceId)
    /\ UNCHANGED << stepVars, now, paths, selectedId, activeTab, selectedColor,
                    touchVars, lineVars, shapeVars, modeVars, dragging >>
    /\ undoRun' = null
    /\ OtherEvent

----------------------------------------------------------------------------
(* Rendering of a dribble line: the wave samples of the completed line.    *)
(* Coordinates are quarter pixels of the 400 x 600 drawing, so that the    *)
(* pixel of every stored point is an integer; angles are thousandths of a  *)
(* half turn and offsets thousandths of a pixel.                            *)

pitchWidth == 400
pitchHeight == 600

(* points.map(p => ({ x: p.x / 100 * pitchWidth, y: p.y / 100 * pitchHeight })) *)
Pixel(p) == [x |-> (p.x * pitchWidth * 4) \div Pct(100),
             y |-> (p.y * pitchHeight * 4) \div Pct(100)]

(* Math.floor(Math.sqrt(n)) *)
RECURSIVE FloorSqrtIn(_, _, _)
FloorSqrtIn(lo, hi, n) ==
    IF lo = hi THEN lo
    ELSE LET mid == (lo + hi + 1) \div 2
         IN  IF mid * mid <= n THEN FloorSqrtIn(mid, hi, n)
                               ELSE FloorSqrtIn(lo, mid - 1, n)

(* The diagonal of the drawing is below 4096 quarter pixels. *)
FloorSqrt(n) == FloorSqrtIn(0, Min(n, 4096), n)

(* dx * dx + dy * dy of a segment, in quarter pixels squared. *)
SquaredLength(p1, p2) ==
    (p2.x - p1.x) * (p2.x - p1.x) + (p2.y - p1.y) * (p2.y - p1.y)

(* distance, rounded down to the quarter pixel. *)
Distance(p1, p2) == FloorSqrt(SquaredLength(p1, p2))

(* Steps that count one more than the half of the distance. *)
StepsPlusOne(p1, p2) == Max(Distance(p1, p2) \div 8 + 1, 15)

(* steps = Math.max(Math.floor(distance / 2), 15) *)
Steps(p1, p2) == Max(Distance(p1, p2) \div 8, 15)

amplitude(drawMode) == IF drawMode = "freehand" THEN 10 ELSE 6

(* frequency, in thousandths: 0.12 and 0.2 *)
frequency(drawMode) == IF drawMode = "freehand" THEN 120 ELSE 200

(* Math.sin(a * Math.PI) in thousandths, a in thousandths of a half turn:  *)
(* on the first half turn 16 u (1 - u) / (5 - 4 u (1 - u)), which is within *)
(* 0.004 of the sine, and its negative on the second.                       *)
Sin(a) ==
    LET m == a % 2000
        u == IF m <= 1000 THEN m ELSE m - 1000
        w == (u * (1000 - u)) \div 250
        half == (4000 * w) \div (5000 - w)
    IN  IF m <= 1000 THEN half ELSE 0 - half

(* An offset that is scaled by the amplitude twice. *)
WaveOffsetSquared(currentDistance, drawMode) ==
    Sin((currentDistance * frequency(drawMode)) \div 4) * amplitude(drawMode) * amplitude(drawMode)

(* waveOffset = Math.sin(currentDistance * frequency * Math.PI) * amplitude *)
WaveOffset(currentDistance, drawMode) ==
    Sin((currentDistance * frequency(drawMode)) \div 4) * amplitude(drawMode)

(* The sample j of the segment from p1 to p2.  base is the baseline point  *)
(* times steps; the sample lies at base / steps + perp / length * offset,  *)
(* where length * length = squared: for a segment of length 0 the division  *)
(* is 0 / 0 and the coordinates of the sample are NaN.                      *)
WaveSample(p1, p2, cumulativeDistance, j, drawMode) ==
    LET steps == Steps(p1, p2)
        distance == Distance(p1, p2)
    IN  [segment |-> << p1, p2 >>,
         j |-> j,
         steps |-> steps,
         base |-> [x |-> p1.x * steps + (p2.x - p1.x) * j,
                   y |-> p1.y * steps + (p2.y - p1.y) * j],
         perp |-> [x |-> 0 - (p2.y - p1.y), y |-> p2.x - p1.x],
         squared |-> SquaredLength(p1, p2),
         offset |-> WaveOffset(cumulativeDistance + (j * distance) \div steps, drawMode)]

(* The inner loop: for (let j = 0; j <= steps; j++) wavePoints.push(...) *)
SegmentSamples(p1, p2, cumulativeDistance, drawMode) ==
    [k \in 1..(Steps(p1, p2) + 1) |->
        WaveSample(p1, p2, cumulativeDistance, k - 1, drawMode)]

(* The outer loop over the segments from segment i on. *)
RECURSIVE WaveFrom(_, _, _, _)
WaveFrom(points, i, cumulativeDistance, drawMode) ==
    IF i >= Len(points) THEN <<>>
    ELSE SegmentSamples(points[i], points[i + 1], cumulativeDistance, drawMode)
           \o WaveFrom(points, i + 1,
                       cumulativeDistance + Distance(points[i], points[i + 1]), drawMode)

(* wavePoints of a line element that is rendered as a dribble: none when   *)
(* the line has fewer than two points.                                      *)
WavePoints(line) ==
    IF Len(line.points) < 2 THEN <<>>
    ELSE WaveFrom([i \in 1..Len(line.points) |-> Pixel(line.points[i])], 1, 0, line.drawMode)

(* The path of the wave, as its commands: M x y, Q x1 y1, x y and L x y,   *)
(* each with the samples it names.  wavePoints[i] of the code is           *)
(* wavePoints[i + 1] here.                                                  *)
Command(letter, points) == [command |-> letter, points |-> points]

(* for (let i = 1; i < wavePoints.length - 1; i += 2): round k of the     *)
(* loop has i = 2 k - 1, and the last round is the last k with              *)
(* 2 k - 1 < wavePoints.length - 1.                                         *)
Quadratics(wavePoints) ==
    [k \in 1..((Len(wavePoints) - 1) \div 2) |->
        LET i == 2 * k - 1
        IN  Command("Q", << wavePoints[i + 1],
                            wavePoints[Min(i + 1, Len(wavePoints) - 1) + 1] >>)]

(* A path without the closing straight segment. *)
PathDataOpen(wavePoints) ==
    << Command("M", << wavePoints[1] >>) >> \o Quadratics(wavePoints)

(* pathData of a wave of at least one sample. *)
PathData(wavePoints) ==
    << Command("M", << wavePoints[1] >>) >>
      \o Quadratics(wavePoints)
      \o (IF Len(wavePoints) % 2 = 0
            THEN << Command("L", << wavePoints[Len(wavePoints)] >>) >>
            ELSE <<>>)

----------------------------------------------------------------------------
(* The events of a session.  The inputs are drawn from the given sets:     *)
(* pointer positions (downs where a press lands), palette tiles, tabs and   *)
(* colours; cap bounds the number of elements the collection grows to,      *)
(* MaxPoints the capture.                                                   *)

HeaderEvents(colors) ==
    \/ HandleClear
    \/ HandleUndo /\ undoRun'.calls <= MaxUndos
    \/ \E c \in colors : SelectColor(c)

PlacementEvents(points, tiles, cap) ==
    \/ \E a \in tiles, p \in points : HandleDrop(a, p) /\ Len(elements') <= cap
    \/ \E a \in tiles, p \in points : HandleTouchStart(a, p)

ModeEvents ==
    \/ ToggleMoveMode
    \/ ToggleDeleteMode

ElementEvents(points) ==
    \/ \E i \in 1..Len(elements) : ElementClick(i)
    \/ \E i \in 1..Len(elements) : LineClick(i)
    \/ \E i \in 1..Len(elements) : ElementDown(i)
    \/ \E p \in points : WindowMove(p)
    \/ WindowUp

PitchEvents(downs, points, cap) ==
    \/ \E p \in downs : PitchDown(p)
    \/ \E p \in points : PitchMove(p) /\ Len(currentLine') <= MaxPoints
    \/ PitchMouseUp /\ Len(elements') <= cap
    \/ \E p \in points : PitchTouchEnd(p) /\ Len(elements') <= cap
    \/ PitchClick

ToolbarEvents(tabs, tiles) ==
    \/ \E t \in tabs : TabClick(t)
    \/ \E a \in tiles : PaletteClick(a)

(* Pointer positions (client pixels): two inside the pitch, one a box of   *)
(* 1 x 1 percent away from the first, one at 1.5 x 0.5 percent from it,     *)
(* and one outside the pitch on both axes.                                  *)
PInside == At(10, 10)
PFar == At(90, 90)
PNear == At(11, 11)
PThin == [x |-> PNear.x + 1, y |-> PInside.y + 2]
POutside == [x |-> PitchRect.left - 40, y |-> PitchRect.top + PitchRect.height + 100]

Tile(ids) == {Asset(id) : id \in ids}

(* The interaction modes: toggles, tools, tabs, background clicks, gestures. *)
NextModes ==
    \/ LoadEffect
    \/ HandleClear
    \/ ModeEvents
    \/ PitchEvents({PInside}, {PInside, PFar}, 1)
    \/ ToolbarEvents(Tabs, Tile({"player", "straight-dotted", "square-dash"}))

SpecModes == Init /\ [][NextModes]_vars

(* The collection: everything that creates, removes or loads elements and  *)
(* paths, with the clock that names them.                                   *)
NextCollection ==
    \/ LoadEffect
    \/ Tick
    \/ HandleClear
    \/ HandleUndo /\ undoRun'.calls <= MaxUndos
    \/ PlacementEvents({PInside}, Tile({"player"}), MaxElements)
    \/ ToggleDeleteMode
    \/ \E i \in 1..Len(elements) : ElementClick(i)
    \/ \E i \in 1..Len(elements) : LineClick(i)
    \/ PitchEvents({PInside}, {PInside, PFar}, MaxElements)
    \/ ToolbarEvents({"players", "arrows", "shapes"},
                     Tile({"player", "straight-dotted", "square-dash"}))

SpecCollection == Init /\ [][NextCollection]_vars

(* Positions: everything that computes a position from a pointer event.     *)
NextGeometry ==
    \/ LoadEffect
    \/ HandleClear
    \/ PlacementEvents({PInside, POutside}, Tile({"player"}), 1)
    \/ ToggleMoveMode
    \/ \E i \in 1..Len(elements) : ElementDown(i)
    \/ \E p \in {PInside, POutside} : WindowMove(p)
    \/ WindowUp
    \/ PitchEvents({PInside, POutside}, {PInside, POutside}, 1)
    \/ ToolbarEvents({"players", "arrows", "shapes"},
                     Tile({"player", "freehand-solid", "square-dash"}))

SpecGeometry == Init /\ [][NextGeometry]_vars

(* Undo: runs of undo calls over collections built by drops, deletes, clear *)
(* and the stored canvas.                                                   *)
NextUndo ==
    \/ LoadEffect
    \/ Tick
    \/ HandleClear
    \/ HandleUndo /\ undoRun'.calls <= MaxUndos
    \/ \E p \in {PInside, PFar} :
          HandleDrop(Asset("player"), p) /\ Len(elements') <= MaxElements
    \/ ToggleDeleteMode
    \/ \E i \in 1..Len(elements) : ElementClick(i)

SpecUndo == Init /\ [][NextUndo]_vars

(* Line drawing: the line gesture and what selects or clears the line tool. *)
NextLine ==
    \/ LoadEffect
    \/ HandleClear
    \/ ModeEvents
    \/ PitchEvents({PInside, PFar}, {PInside, PFar}, 1)
    \/ ToolbarEvents({"arrows", "players"},
                     Tile({"straight-dotted", "freehand-solid"}))

SpecLine == Init /\ [][NextLine]_vars

(* Shape drawing: the shape gesture and what selects or clears the tool.    *)
NextShape ==
    \/ LoadEffect
    \/ HandleClear
    \/ ModeEvents
    \/ PitchEvents({PInside, PNear}, {PInside, PFar, PNear, PThin}, 1)
    \/ ToolbarEvents({"shapes"}, Tile({"circle", "square-dash"}))

SpecShape == Init /\ [][NextShape]_vars

(* Element gestures: drags of placed elements in move mode, with deletes  *)
(* in delete mode, and every way the pointer of a drag can end.            *)
NextListeners ==
    \/ LoadEffect
    \/ Tick
    \/ \E a \in Tile({"player"}) : HandleDrop(a, PInside) /\ Len(elements') <= MaxElements
    \/ ModeEvents
    \/ \E i \in 1..Len(elements) : ElementClick(i)
    \/ \E i \in 1..Len(elements) : ElementDown(i)
    \/ \E p \in {PInside, PFar} : WindowMove(p)
    \/ WindowUp
    \/ TouchCancel
    \/ PitchMouseUp

SpecListeners == Init /\ [][NextListeners]_vars

(* Touch placement: a touch that starts on a palette tile, the moves and  *)
(* ends of touches over the pitch, and touches that end off the pitch.     *)
NextTouch ==
    \/ LoadEffect
    \/ Tick
    \/ \E a \in Tile({"player", "ball"}), p \in {PInside, PFar} : HandleTouchStart(a, p)
    \/ \E p \in {PInside, PFar} : PitchDown(p)
    \/ \E p \in {PInside, PFar} : PitchMove(p)
    \/ \E p \in {PInside, PFar} : PitchTouchEnd(p) /\ Len(elements') <= MaxElements
    \/ PointerLost

SpecTouch == Init /\ [][NextTouch]_vars

(* Dribble lines: a step that stores one line of the dribble style, as    *)
(* handleLineDrawEnd commits it for a dribble tool, straight with two      *)
(* points or freehand with three, is loaded, saved, undone and cleared.     *)
DribblePoints ==
    {[x |-> Pct(10), y |-> Pct(10)], [x |-> Pct(10), y |-> Pct(12)],
     [x |-> Pct(20), y |-> Pct(10)], [x |-> Pct(90), y |-> Pct(90)]}

DribbleLine(drawMode, points) ==
    NewLine([id |-> drawMode \o "-dribble", lineStyle |-> "dribble", drawMode |-> drawMode],
            points, 1)

DribbleData ==
    {[elements |-> << DribbleLine("straight", << a, b >>) >>, paths |-> <<>>] :
        a \in DribblePoints, b \in DribblePoints}
    \cup
    {[elements |-> << DribbleLine("freehand", << a, b, c >>) >>, paths |-> <<>>] :
        a \in DribblePoints, b \in DribblePoints, c \in DribblePoints}

InitDribble == \E data \in DribbleData : InitWith(data)

NextDribble ==
    \/ LoadEffect
    \/ HandleClear
    \/ HandleUndo /\ undoRun'.calls <= MaxUndos
    \/ HandleSave
    \/ Reload

SpecDribble == InitDribble /\ [][NextDribble]_vars

(* Reset: a step that stores an element of one template of the catalog,  *)
(* resized and turned, next to a marker that the catalog of this variant   *)
(* has no template for; elements are selected, reset and removed.           *)
Templates == UNION {Range(BrokenASSETS[t]) : t \in DOMAIN BrokenASSETS}

Altered(asset, instanceId) ==
    Spread(NewElement(asset, At(50, 50), instanceId, COLORS[1]),
           [width |-> Pct(20), height |-> Pct(3), rotation |-> 45])

ResetData ==
    {[elements |-> << Altered(asset, 1), Altered(Asset("x-mark"), 2) >>, paths |-> <<>>] :
        asset \in Templates}

InitReset == \E data \in ResetData : InitWith(data)

NextReset ==
    \/ LoadEffect
    \/ \E t \in {"players", "shapes"} : SetActiveTab(t)
    \/ \E i \in 1..Len(elements) : ElementSelect(i)
    \/ \E i \in 1..Len(elements) : RemoveElement(i)
    \/ \E i \in 1..Len(elements) : HandleReset(i)

SpecReset == InitReset /\ [][NextReset]_vars

(* The pointer: a line or a shape gesture with every way its pointer can  *)
(* go, over the pitch and off it.                                           *)
NextPointer ==
    \/ LoadEffect
    \/ PitchEvents({PInside}, {PInside, PFar}, 1)
    \/ PointerLost
    \/ ToolbarEvents({"arrows", "shapes"}, Tile({"freehand-solid", "square-dash"}))

SpecPointer == Init /\ [][NextPointer]_vars

(* Drops: the data of a palette drag (a player, the ball), of a drag from  *)
(* outside the page that carries the fields of an element, data that does  *)
(* not parse, empty data and JSON null; inside and outside the pitch.       *)
PastedElement ==
    Spread(Asset("player"),
           [label |-> "Pasted", instanceId |-> 9, x |-> Pct(1), y |-> Pct(1),
            color |-> "#123456", rotation |-> 90])

DropData ==
    {[kind |-> "json", value |-> Asset("player")],
     [kind |-> "json", value |-> Asset("ball")],
     [kind |-> "json", value |-> PastedElement],
     [kind |-> "json", value |-> null],
     [kind |-> "text"],
     [kind |-> "empty"]}

DropPoints == {PInside, POutside}

NextDrop ==
    \/ LoadEffect
    \/ Tick
    \/ HandleClear
    \/ \E c \in {COLORS[1], COLORS[4]} : SelectColor(c)
    \/ \E d \in DropData, p \in DropPoints :
          HandleDropData(d, p) /\ Len(elements') <= MaxElements

SpecDrop == Init /\ [][NextDrop]_vars

(* Steps: the page opens on a step that stores nothing, a canvas, or a    *)
(* canvas whose lists hold records without the fields of an element or of   *)
(* a path; it is edited, saved, loaded anew, and moved to another step.     *)
CorruptCanvas ==
    [elements |-> << [type |-> "player"] >>,
     paths |-> << [color |-> "#ffffff"] >>]

StepData == {null, StoredCanvas, CorruptCanvas}

InitSteps == \E data \in StepData : InitWith(data)

NextSteps ==
    \/ LoadEffect
    \/ HandleSave
    \/ Reload
    \/ \E data \in StepData : StepChange(data)
    \/ HandleClear
    \/ HandleUndo /\ undoRun'.calls <= MaxUndos
    \/ \E id \in {"player", "ball"} :
          /\ HandleDropData([kind |-> "json", value |-> Asset(id)], PInside)
          /\ Len(elements') <= MaxElements

SpecSteps == InitSteps /\ [][NextSteps]_vars

(* The handles of the variant with transformation handles: a step that    *)
(* stores a square of 5 x 4 percent turned by 45 degrees, tiles added from  *)
(* the palette, selection, reset, delete, and resize gestures that start    *)
(* at the centre and move by +10, by +45 and by -40 percent.                *)
StoredShapes ==
    [elements |-> << Spread(NewElement(BrokenAsset("square"), At(50, 50), 1, COLORS[1]),
                            [width |-> Pct(5), height |-> Pct(4), rotation |-> 45]) >>,
     paths |-> <<>>]

PCentre == At(50, 50)
PPlusTen == At(60, 60)
PPlusFar == At(95, 95)
PMinusFar == At(10, 10)

(* A mouse move or touch move on the window at p during a rotate gesture. *)
RotateMove(p, touched) ==
    /\ rotating # <<>>
    /\ touched = NoId \/ \E k \in 1..Len(rotating) : rotating[k].instanceId = touched
    /\ elements' = Moved(elements, p, touched)
    /\ UNCHANGED << stepVars, now, paths, selectedId, activeTab, selectedColor,
                    touchVars, lineVars, shapeVars, modeVars, dragging, resizing,
                    rotating >>
    /\ undoRun' = null
    /\ isViewMode' = isViewMode
    /\ lastEvent' = "handled"
    /\ saved' = null

(* A mouse up or touch end on the window during a rotate gesture: every    *)
(* handleUp removes its listeners.                                          *)
RotateUp ==
    /\ rotating # <<>>
    /\ rotating' = <<>>
    /\ resizing' = <<>>
    /\ dragging' = {}
    /\ UNCHANGED << stepVars, now, elements, paths, selectedId, activeTab,
                    selectedColor, touchVars, lineVars, shapeVars, modeVars >>
    /\ undoRun' = null
    /\ isViewMode' = isViewMode
    /\ lastEvent' = "handled"
    /\ saved' = null

InitHandles == \E data \in {null, StoredShapes} : InitWith(data)

NextHandles ==
    \/ LoadEffect
    \/ \E t \in {"players", "shapes"} : SetActiveTab(t)
    \/ \E id \in {"player", "rect"} :
          PaletteAdd(BrokenAsset(id), PCentre) /\ Len(elements') <= 1
    \/ \E i \in 1..Len(elements) : ElementSelect(i)
    \/ \E i \in 1..Len(elements) : RemoveElement(i)
    \/ \E i \in 1..Len(elements) : HandleReset(i)
    \/ \E i \in 1..Len(elements) :
          HandleResize(i, PCentre, {"s", "e"}) /\ Len(resizing') <= MaxGestures
    \/ \E p \in {PPlusTen, PPlusFar, PMinusFar}, touched \in {NoId} \cup Ids(elements) :
          ResizeMove(p, touched)
    \/ ResizeUp

SpecHandles == InitHandles /\ [][NextHandles]_vars

----------------------------------------------------------------------------
(* Properties. *)

InPct(v) == 0 <= v /\ v <= Pct(100)
PointInPct(q) == InPct(q.x) /\ InPct(q.y)
RemoveAt(seq, i) == SubSeq(seq, 1, i - 1) \o SubSeq(seq, i + 1, Len(seq))
IsLine(el) == el.type = "line"
IsShape(el) == el.type = "shape"

(* C1: at most one interaction mode is active at any time: of move mode,   *)
(* delete mode, a selected line tool and a selected shape tool, no two     *)
(* hold together.                                                          *)
ActiveModes ==
    {m \in {"move", "delete", "line", "shape"} :
        \/ m = "move" /\ moveMode
        \/ m = "delete" /\ deleteMode
        \/ m = "line" /\ selectedLineType # null
        \/ m = "shape" /\ drawingShapeType # null}

C1_AtMostOneMode == Cardinality(ActiveModes) <= 1

(* C2: no two elements of the collection have the same instanceId.         *)
C2_UniqueInstanceIds ==
    \A i, j \in 1..Len(elements) :
        i # j => elements[i].instanceId # elements[j].instanceId

(* C3: every element has x and y in [0,100], and every point of a line and *)
(* of the capture in progress is in [0,100] on both axes, wherever the     *)
(* pointer was.                                                            *)
C3_PositionsInRange ==
    /\ \A i \in 1..Len(elements) :
          /\ InPct(elements[i].x)
          /\ InPct(elements[i].y)
          /\ IsLine(elements[i]) =>
                \A k \in 1..Len(elements[i].points) : PointInPct(elements[i].points[k])
    /\ \A k \in 1..Len(currentLine) : PointInPct(currentLine[k])

(* An element sits where a pointer outside the pitch (left of it and below *)
(* it) was clamped to: the left edge, the bottom edge.                     *)
C3_Witness ==
    \E i \in 1..Len(elements) :
        /\ elements[i].type = "player"
        /\ elements[i].x = 0
        /\ elements[i].y = Pct(100)

(* C4: a delete-mode tap on the element at position i removes exactly that *)
(* element: the others stay, unchanged and in their order.                 *)
C4_DeleteRemovesExactlyOne ==
    [][\A i \in 1..Len(elements) :
          (deleteMode /\ (ElementClick(i) \/ LineClick(i)))
             => elements' = RemoveAt(elements, i)]_vars

(* C5: undo is the inverse of the most recent append: called right after   *)
(* an element was appended, it removes that element and nothing else.      *)
(* (handleUndo is a function of the two collections; it is applied here to *)
(* the state the append leaves.)                                           *)
C5_UndoInvertsLatestAppend ==
    [][(/\ Len(elements') = Len(elements) + 1
        /\ Front(elements') = elements
        /\ paths' = paths)
          => AfterUndo(paths', elements') = [paths |-> paths, elements |-> elements]]_vars

(* C6: after k undo calls in a row from a state holding n items (paths     *)
(* plus elements) there are n - k items, and none once k >= n: every call  *)
(* removes exactly one item until both collections are empty, and is a     *)
(* no-op from then on.                                                     *)
C6_UndoRemovesOnePerCall ==
    undoRun # null =>
        Len(paths) + Len(elements) = Max(undoRun.base - undoRun.calls, 0)

(* Three items drained by exactly three undo calls. *)
C6_Witness ==
    /\ undoRun # null
    /\ undoRun.base = 3
    /\ undoRun.calls = 3
    /\ paths = <<>>
    /\ elements = <<>>
(* C7: a line element is added only by a gesture that captured at least   *)
(* two points: every line element has at least two points, a step that     *)
(* appends a line is taken with a capture of two points or more, which     *)
(* become its points, and a gesture that ends with fewer adds nothing and  *)
(* clears the capture.                                                     *)
C7_LineNeedsTwoPoints ==
    /\ [](\A i \in 1..Len(elements) :
            IsLine(elements[i]) => Len(elements[i].points) >= 2)
    /\ [][/\ (Len(elements') = Len(elements) + 1 /\ IsLine(Last(elements')))
               => /\ isDrawing
                  /\ Len(currentLine) >= 2
                  /\ Last(elements').points = currentLine
          /\ (isDrawing /\ ~isDrawing' /\ Len(currentLine) < 2)
               => /\ elements' = elements
                  /\ currentLine' = <<>>]_vars

(* A drawn line is in the collection. *)
C7_Witness ==
    \E i \in 1..Len(elements) :
        IsLine(elements[i]) /\ Len(elements[i].points) >= 2

(* C8: with a straight line tool selected the capture never holds more     *)
(* than two points, and every straight line in the collection has exactly  *)
(* two points.                                                             *)
C8_StraightHasTwoPoints ==
    /\ (isDrawing /\ selectedLineType # null /\ selectedLineType.drawMode = "straight")
          => Len(currentLine) <= 2
    /\ \A i \in 1..Len(elements) :
          (IsLine(elements[i]) /\ elements[i].drawMode = "straight")
             => Len(elements[i].points) = 2

(* C9: a line gesture whose last point equals its first, or a shape        *)
(* gesture whose box has no extent, adds no element when it ends.          *)
C9_ZeroLengthDiscarded ==
    [][/\ (isDrawing /\ ~isDrawing' /\ Last(currentLine) = currentLine[1])
            => elements' = elements
       /\ (/\ isDrawingShape /\ ~isDrawingShape'
           /\ currentShapeDimensions.width = 0
           /\ currentShapeDimensions.height = 0)
            => elements' = elements]_vars

(* C10 as stated: the end of a shape gesture appends a shape exactly when  *)
(* the width and the height of the box both exceed 1 percentage point;     *)
(* otherwise the collection is unchanged; the capture is cleared.          *)
C10_CommitsAboveThreshold ==
    [][(isDrawingShape /\ ~isDrawingShape')
          => /\ IF /\ currentShapeDimensions.width > Pct(1)
                   /\ currentShapeDimensions.height > Pct(1)
                  THEN /\ Len(elements') = Len(elements) + 1
                       /\ IsShape(Last(elements'))
                  ELSE elements' = elements
             /\ drawingShapeStart' = null
             /\ currentShapeDimensions' = null]_vars

(* C10, amended: the end of a shape gesture appends a shape of the size of *)
(* the box exactly when a shape tool is still selected and the width and   *)
(* the height of the box are both at least 1 percentage point; otherwise   *)
(* the collection is unchanged; in both cases the capture is cleared.      *)
C10_CommitsFromThreshold ==
    [][(isDrawingShape /\ ~isDrawingShape')
          => /\ IF /\ drawingShapeType # null
                   /\ currentShapeDimensions.width >= Pct(1)
                   /\ currentShapeDimensions.height >= Pct(1)
                  THEN /\ Len(elements') = Len(elements) + 1
                       /\ Front(elements') = elements
                       /\ IsShape(Last(elements'))
                       /\ Last(elements').width = currentShapeDimensions.width
                       /\ Last(elements').height = currentShapeDimensions.height
                  ELSE elements' = elements
             /\ drawingShapeStart' = null
             /\ currentShapeDimensions' = null]_vars

(* A box of exactly 1 x 1 percent has become a shape. *)
C10_Witness ==
    \E i \in 1..Len(elements) :
        /\ IsShape(elements[i])
        /\ elements[i].width = Pct(1)
        /\ elements[i].height = Pct(1)
(* C11: after every pointer move of a resize gesture the width of the      *)
(* element is clamp(initialWidth + dx, 2, 30) when the direction of the    *)
(* handle contains e, its height clamp(initialHeight + dy, 2, 30) when it  *)
(* contains s, the initial size being the one captured when the gesture    *)
(* started and (dx, dy) the offset of the pointer from that start in       *)
(* percent; both are in [2, 30].  (With several gestures on one element    *)
(* the one registered last decides.)                                       *)
Limited(v) == IF v < Pct(2) THEN Pct(2) ELSE IF v > Pct(30) THEN Pct(30) ELSE v

LastGesture(instanceId) ==
    resizing[CHOOSE k \in 1..Len(resizing) :
                /\ resizing[k].instanceId = instanceId
                /\ \A j \in (k + 1)..Len(resizing) : resizing[j].instanceId # instanceId]

C11_ResizeClamped ==
    [][\A p \in {PPlusTen, PPlusFar, PMinusFar}, touched \in {NoId} \cup Ids(elements) :
          ResizeMove(p, touched) =>
             \A i \in 1..Len(elements) :
                (\E k \in 1..Len(resizing) : resizing[k].instanceId = elements[i].instanceId)
                   => LET g == LastGesture(elements[i].instanceId)
                          dx == ((p.x - g.start.x) * Pct(100)) \div PitchRect.width
                          dy == ((p.y - g.start.y) * Pct(100)) \div PitchRect.height
                      IN  /\ "e" \in g.direction
                               => elements'[i].width = Limited(g.initialWidth + dx)
                          /\ "s" \in g.direction
                               => elements'[i].height = Limited(g.initialHeight + dy)
                          /\ Pct(2) <= elements'[i].width /\ elements'[i].width <= Pct(30)
                          /\ Pct(2) <= elements'[i].height /\ elements'[i].height <= Pct(30)]_vars

(* The element of 5 x 4 percent, pulled by (+10, +10), is 15 x 14. *)
C11_Witness ==
    /\ resizing # <<>>
    /\ resizing[1].initialWidth = Pct(5)
    /\ resizing[1].initialHeight = Pct(4)
    /\ \E i \in 1..Len(elements) :
          /\ elements[i].instanceId = resizing[1].instanceId
          /\ elements[i].width = Pct(15)
          /\ elements[i].height = Pct(14)

(* C12: reset is idempotent: a second reset of the same element right      *)
(* after the first changes nothing in the collection, so width, height     *)
(* and rotation are those the first reset gave.                            *)
C12_ResetIdempotent ==
    [][\A i \in 1..Len(elements) :
          HandleReset(i) =>
             AfterReset(elements', elements[i].instanceId) = elements']_vars

(* A reset has put the stored square, 5 x 4 and turned by 45 degrees, back *)
(* to the 10 x 10 of its asset and to rotation 0.                          *)
C12_Witness ==
    /\ canvasData = StoredShapes
    /\ Len(elements) = 1
    /\ elements[1].instanceId = 1
    /\ elements[1].width = Pct(10)
    /\ elements[1].height = Pct(10)
    /\ elements[1].rotation = 0
(* C13: a drop of an asset at the client point (cx, cy) appends exactly    *)
(* one element, with x = clamp(100 * (cx - left) / w, 0, 100) and          *)
(* y = clamp(100 * (cy - top) / h, 0, 100) for the rectangle               *)
(* [left, left + w] x [top, top + h] of the container.                     *)
Within100(v) == IF v < 0 THEN 0 ELSE IF v > Pct(100) THEN Pct(100) ELSE v

C13_DropPosition ==
    [][\A d \in DropData, p \in DropPoints :
          (HandleDropData(d, p) /\ d.kind = "json" /\ d.value # null)
             => /\ Len(elements') = Len(elements) + 1
                /\ Front(elements') = elements
                /\ Last(elements').x =
                      Within100((Pct(100) * (p.x - PitchRect.left)) \div PitchRect.width)
                /\ Last(elements').y =
                      Within100((Pct(100) * (p.y - PitchRect.top)) \div PitchRect.height)]_vars

(* Two drops: one at (10, 10) percent, one left of and below the pitch. *)
C13_Witness ==
    /\ Len(elements) = 2
    /\ elements[1].x = Pct(10) /\ elements[1].y = Pct(10)
    /\ elements[2].x = 0 /\ elements[2].y = Pct(100)

(* C14: an element made by a placement has the clock value of its creation *)
(* as instanceId, rotation 0, the width and height of the dropped template *)
(* (5 where it has none), and the selected colour, or none when the asset  *)
(* has fixedColor; instanceId, x, y, color and rotation of the payload     *)
(* never show in it.                                                       *)
C14_PlacementFields ==
    [][\A d \in DropData, p \in DropPoints :
          (HandleDropData(d, p) /\ d.kind = "json" /\ d.value # null)
             => LET el == Last(elements')
                    asset == d.value
                IN  /\ el.instanceId = now
                    /\ el.rotation = 0
                    /\ el.width = IF "width" \in DOMAIN asset THEN asset.width ELSE Pct(5)
                    /\ el.height = IF "height" \in DOMAIN asset THEN asset.height ELSE Pct(5)
                    /\ el.color = IF "fixedColor" \in DOMAIN asset /\ asset.fixedColor
                                    THEN "undefined" ELSE selectedColor
                    /\ el.x = ClampedPoint(p).x
                    /\ el.y = ClampedPoint(p).y
                    /\ el.id = asset.id
                    /\ el.type = asset.type]_vars

(* The payload that carried the fields of an element has been placed, and  *)
(* so has the ball, without a colour.                                      *)
C14_Witness ==
    /\ \E i \in 1..Len(elements) :
          /\ elements[i].label = "Pasted"
          /\ elements[i].instanceId # PastedElement.instanceId
          /\ elements[i].rotation = 0
          /\ elements[i].color = COLORS[4]
    /\ \E i \in 1..Len(elements) :
          elements[i].id = "ball" /\ elements[i].color = "undefined"

(* C15: a drop whose data does not parse leaves the elements, the paths,   *)
(* the selection, the modes and all the rest of the page's state as they   *)
(* were.                                                                   *)
C15_BadDropChangesNothing ==
    [][lastEvent' = "dropRejected"
          => UNCHANGED << mounted, canvasData, now, elements, paths, selectedId,
                          activeTab, selectedColor, draggedAsset, touchDragPos,
                          selectedLineType, isDrawing, currentLine, isDrawingShape,
                          drawingShapeType, drawingShapeStart, currentShapeDimensions,
                          moveMode, deleteMode, dragging, resizing, rotating >>]_vars

(* Data that does not parse has just been dropped on a pitch that holds    *)
(* two elements.                                                           *)
C15_Witness ==
    /\ lastEvent = "dropRejected"
    /\ Len(elements) = 2

(* The fields interface PitchElement and interface DrawingPath require. *)
ElementFields == {"id", "type", "instanceId", "x", "y"}

PathFields == {"id", "points", "color", "dashed"}

HasFields(list, fields) == \A i \in 1..Len(list) : fields \subseteq DOMAIN list[i]

WellFormed(data) ==
    /\ "elements" \in DOMAIN data => HasFields(data.elements, ElementFields)
    /\ "paths" \in DOMAIN data => HasFields(data.paths, PathFields)

(* A step in which the load effect runs: the page mounts, or the route     *)
(* moves it to another step.                                                *)
Loads ==
    \/ ~mounted /\ mounted'
    \/ mounted /\ mounted' /\ canvasData' # canvasData

(* C16: loading a step whose canvasData is corrupt (its elements or paths  *)
(* hold records that are no elements or paths) is aborted: the elements    *)
(* and paths in memory are left as they were.                               *)
C16_CorruptLoadAborted ==
    [][Loads /\ ~WellFormed(canvasData') => UNCHANGED << elements, paths >>]_vars

(* What a step stores under f: the list, or the empty list when it has    *)
(* none.                                                                    *)
StoredList(data, f) == IF f \in DOMAIN data THEN data[f] ELSE <<>>

(* C17: loading a step replaces the state in memory: after the load the    *)
(* elements and the paths are exactly those the step stores, empty when it *)
(* stores none, whatever was held before.                                   *)
C17_LoadReplacesState ==
    [][Loads => /\ elements' = StoredList(canvasData', "elements")
                /\ paths' = StoredList(canvasData', "paths")]_vars

(* Reading field f gives the same value in x and in y; a field that one   *)
(* of them lacks reads undefined there.                                    *)
SameField(x, y, f) ==
    IF f \in DOMAIN x /\ f \in DOMAIN y
    THEN x[f] = y[f]
    ELSE f = "color" /\ (IF f \in DOMAIN x THEN x[f] ELSE y[f]) = "undefined"

SameList(a, b) ==
    /\ Len(a) = Len(b)
    /\ \A i \in 1..Len(a) : \A f \in DOMAIN a[i] \cup DOMAIN b[i] : SameField(a[i], b[i], f)

(* C18: save followed by load is a lossless round trip: once handleSave    *)
(* has stored the elements and paths and the step has been opened again,   *)
(* the loaded elements and paths are, item for item and in the same order, *)
(* those held at the save, with the same instanceIds and field values.     *)
C18_SaveLoadRoundTrip ==
    (saved # null /\ saved.loaded) =>
        /\ SameList(elements, saved.elements)
        /\ SameList(paths, saved.paths)

(* Two elements, one of them saved with an undefined colour, have come     *)
(* back from the stored text of the drill.                                  *)
C18_Witness ==
    /\ saved # null
    /\ saved.loaded
    /\ Len(elements) = 2
    /\ \E i \in 1..Len(elements) :
          /\ "color" \in DOMAIN saved.elements[i]
          /\ "color" \notin DOMAIN elements[i]

(* C19: no two gestures are active at once: a line capture and a shape    *)
(* capture are never both open, and neither of them starts while an        *)
(* element is being dragged.                                                *)
C19_OneGestureAtATime ==
    [][/\ ~(isDrawing' /\ isDrawingShape')
       /\ dragging # {} => /\ isDrawing' => isDrawing
                           /\ isDrawingShape' => isDrawingShape]_vars

(* No gesture is open: no capture runs, no points and no box are held. *)
GestureOver ==
    /\ ~isDrawing
    /\ ~isDrawingShape
    /\ currentLine = <<>>
    /\ drawingShapeStart = null
    /\ currentShapeDimensions = null

(* C20: a line or shape gesture ends when the pointer is released, is      *)
(* cancelled or leaves the pitch: after any of these no capture runs and   *)
(* the points and the box in progress are cleared.                          *)
C20_GestureEndsWithPointer ==
    [][(PitchMouseUp \/ (\E p \in {PInside, PFar} : PitchTouchEnd(p)) \/ PointerLost)
          => GestureOver']_vars

(* C21: every move and up listener an element gesture registers on the   *)
(* window is removed when the gesture ends, by an up event or by a cancel: *)
(* after the end no listener of a gesture is left.                          *)
C21_ListenersRemovedAtEnd ==
    [][(WindowUp \/ TouchCancel) => dragging' = {}]_vars

(* The instanceIds a gesture still refers to although no element of the  *)
(* collection has them.                                                     *)
StaleIds == dragging \ Ids(elements)

(* A resize gesture on the element instanceId. *)
GestureOn(instanceId) ==
    [instanceId |-> instanceId, start |-> PInside, initialWidth |-> Pct(5),
     initialHeight |-> Pct(5), direction |-> {"s", "e"}]

(* C22: a drag, resize or rotate move, or a reset, that refers to an       *)
(* instanceId no longer in the collection is a no-op: the collection keeps *)
(* its length, only elements a gesture refers to change, and a listener of *)
(* a deleted element changes nothing; a pointer-up on the pitch with no    *)
(* gesture in progress changes nothing either.                              *)
C22_StaleGestureIsNoOp ==
    [][/\ \A id \in StaleIds :
             /\ Dragged(elements, id, PFar) = elements
             /\ Resized(elements, GestureOn(id), PFar) = elements
             /\ Rotated(elements, id, 90) = elements
             /\ AfterReset(elements, id) = elements
       /\ (\E p \in {PInside, PFar} : WindowMove(p)) =>
             /\ Len(elements') = Len(elements)
             /\ \A i \in 1..Len(elements) :
                   elements[i].instanceId \notin dragging => elements'[i] = elements[i]
             /\ dragging \subseteq StaleIds => elements' = elements
       /\ (PitchMouseUp /\ ~isDrawing /\ ~isDrawingShape) =>
             UNCHANGED << elements, paths, selectedId, modeVars, lineVars, shapeVars,
                          touchVars, dragging >>]_vars

(* The listeners of a deleted element are still registered, next to those *)
(* of an element that a move has taken to the far point.                   *)
C22_Witness ==
    /\ StaleIds # {}
    /\ Len(elements) = 1
    /\ elements[1].instanceId \in dragging
    /\ elements[1].x = Clamp(PercentX(PFar.x))

(* C23: in delete mode a tap on the background of the pitch has no effect: *)
(* the elements, the selection and the mode (delete mode stays on) are as   *)
(* before.                                                                  *)
C23_BackgroundTapInDeleteMode ==
    [][(PitchClick /\ deleteMode) =>
          /\ deleteMode'
          /\ UNCHANGED << elements, selectedId, moveMode >>]_vars

(* C24: a touch placement that began on a palette tile is over once the  *)
(* touch is released, on the pitch or off it: no dragged asset is pending  *)
(* after the release and at most one element has been placed.              *)
C24_TouchPlacementEndsAtRelease ==
    [][(draggedAsset # null /\ (PointerLost \/ \E p \in {PInside, PFar} : PitchTouchEnd(p))) =>
          /\ draggedAsset' = null
          /\ touchDragPos' = null
          /\ Len(elements') <= Len(elements) + 1]_vars

(* C25: line drawing is single-shot: a pointer-up that commits a line     *)
(* deactivates the line tool (selectedLineType becomes null).               *)
C25_LineToolSingleShot ==
    [][(LineCommits /\ (PitchMouseUp \/ \E p \in {PInside, PFar} : PitchTouchEnd(p))) =>
          selectedLineType' = null]_vars

(* The lines of the collection that are rendered as a dribble. *)
DribbleLines ==
    {elements[i] : i \in {k \in 1..Len(elements) :
        /\ elements[k].type = "line"
        /\ elements[k].lineStyle = "dribble"
        /\ Len(elements[k].points) >= 2}}

(* max(floor(d / 2), 15) for the segment from stored point a to stored     *)
(* point b, d its length in pixels of the 400 x 600 drawing: the n with    *)
(* (2 n)^2 <= d^2 < (2 n + 2)^2, in sixteenths of a square pixel.           *)
ExpectedSteps(a, b) ==
    LET d2 == SquaredLength(Pixel(a), Pixel(b))
        n == CHOOSE k \in 0..400 : 64 * k * k <= d2 /\ d2 < 64 * (k + 1) * (k + 1)
    IN  IF n > 15 THEN n ELSE 15

RECURSIVE ExpectedSamples(_, _)
ExpectedSamples(points, i) ==
    IF i >= Len(points) THEN 0
    ELSE ExpectedSteps(points[i], points[i + 1]) + 1 + ExpectedSamples(points, i + 1)

(* C26: a dribble line gets, for each segment of pixel length d,           *)
(* max(floor(d / 2), 15) + 1 wave samples: that number for a line of two   *)
(* points, the sum over the segments for a line of more.                    *)
C26_WaveSampleCount ==
    \A line \in DribbleLines : Len(WavePoints(line)) = ExpectedSamples(line.points, 1)

(* A loaded dribble line of three points with a segment that is shorter    *)
(* than 30 pixels and one that is longer.                                   *)
C26_Witness ==
    /\ mounted
    /\ \E line \in DribbleLines :
          /\ Len(line.points) = 3
          /\ ExpectedSteps(line.points[1], line.points[2]) = 15
          /\ ExpectedSteps(line.points[2], line.points[3]) > 15

(* The sample lies at most limit thousandths of a pixel from its baseline *)
(* point, along the perpendicular: its displacement is perp / length *     *)
(* offset, which is no number when the length of the segment is 0.         *)
WithinOfBaseline(sample, limit) ==
    /\ sample.squared # 0
    /\ Abs(sample.offset)
         * FloorSqrt(sample.perp.x * sample.perp.x + sample.perp.y * sample.perp.y)
       <= limit * FloorSqrt(sample.squared)

(* C27: every wave sample of a dribble line lies at a perpendicular        *)
(* distance of at most the amplitude (10 pixels freehand, 6 straight) from *)
(* the baseline point of its segment, for every line.                       *)
C27_WaveWithinAmplitude ==
    \A line \in DribbleLines :
        LET wavePoints == WavePoints(line)
            limit == IF line.drawMode = "freehand" THEN 10000 ELSE 6000
        IN  \A k \in 1..Len(wavePoints) : WithinOfBaseline(wavePoints[k], limit)

(* The freehand line tool is the selected tool. *)
FreehandTool ==
    /\ selectedLineType # null
    /\ selectedLineType.type = "line"
    /\ selectedLineType.drawMode = "freehand"

(* C28: in freehand draw mode the committed line holds the point of the   *)
(* pointer-down followed by every move sample in the order received: the   *)
(* down starts the capture with its point, every move appends its point at *)
(* the end and leaves the earlier ones, and the commit stores the capture  *)
(* as it is, at the end of the collection.                                  *)
C28_FreehandKeepsEverySample ==
    [][FreehandTool =>
          \A p \in {PInside, PFar} :
              /\ PitchDown(p) => currentLine' = << ClampedPoint(p) >>
              /\ (PitchMove(p) /\ isDrawing) =>
                    /\ Len(currentLine') = Len(currentLine) + 1
                    /\ Front(currentLine') = currentLine
                    /\ Last(currentLine') = ClampedPoint(p)
              /\ ((PitchMouseUp \/ PitchTouchEnd(p)) /\ isDrawing /\ Len(currentLine) >= 2) =>
                    /\ Len(elements') = Len(elements) + 1
                    /\ Front(elements') = elements
                    /\ Last(elements').type = "line"
                    /\ Last(elements').drawMode = "freehand"
                    /\ Last(elements').points = currentLine]_vars

(* A freehand line of a down and two moves has been committed, its points *)
(* in the order near, far, near.                                            *)
C28_Witness ==
    \E i \in 1..Len(elements) :
        /\ elements[i].type = "line"
        /\ elements[i].drawMode = "freehand"
        /\ elements[i].points = << ClampedPoint(PInside), ClampedPoint(PFar), ClampedPoint(PInside) >>

(* The box b spans the points a and c: its sides are the absolute         *)
(* differences and its centre is the middle of a and c.                     *)
Spans(b, a, c) ==
    /\ b.width = Abs(a.x - c.x)
    /\ b.height = Abs(a.y - c.y)
    /\ 2 * b.x + b.width = a.x + c.x
    /\ 2 * b.y + b.height = a.y + c.y

ShapePoints == {PInside, PFar, PNear, PThin}

(* C29: a committed shape has the absolute differences of the clamped     *)
(* anchor a and the clamped last pointer position p as width and height    *)
(* and their middle as centre, whatever the direction of the drag (the     *)
(* same box results with anchor and pointer swapped), and its box lies      *)
(* inside [0,100] x [0,100].                                                *)
C29_ShapeFromAnchorAndPointer ==
    [][\A p \in ShapePoints :
          /\ (PitchMove(p) /\ isDrawingShape /\ drawingShapeStart # null) =>
                /\ Spans(currentShapeDimensions', drawingShapeStart, ClampedPoint(p))
                /\ drawingShapeStart' = drawingShapeStart
                /\ \A q \in ShapePoints :
                      ClampedPoint(q) = drawingShapeStart =>
                          currentShapeDimensions' = BoxBetween(ClampedPoint(p), q)
          /\ ((PitchMouseUp \/ PitchTouchEnd(p)) /\ ShapeCommits) =>
                LET shape == Last(elements')
                    box == currentShapeDimensions
                IN  /\ Len(elements') = Len(elements) + 1
                    /\ shape.type = "shape"
                    /\ shape.width = box.width
                    /\ shape.height = box.height
                    /\ 2 * shape.x = 2 * box.x + box.width
                    /\ 2 * shape.y = 2 * box.y + box.height
                    /\ 2 * shape.x - shape.width >= 0
                    /\ 2 * shape.x + shape.width <= 2 * Pct(100)
                    /\ 2 * shape.y - shape.height >= 0
                    /\ 2 * shape.y + shape.height <= 2 * Pct(100)]_vars

(* A shape drawn between the near and the far point has been committed.   *)
C29_Witness ==
    \E i \in 1..Len(elements) :
        /\ elements[i].type = "shape"
        /\ 2 * elements[i].x = ClampedPoint(PNear).x + ClampedPoint(PFar).x
        /\ elements[i].width = ClampedPoint(PFar).x - ClampedPoint(PNear).x

(* The templates of the catalog with the asset id of the element. *)
TemplatesOf(element) == {t \in Templates : t.id = element.id}

(* No template of the catalog matches the element, by id or by type and   *)
(* variant.                                                                 *)
NoTemplateMatches(element) ==
    \A t \in Templates :
        /\ t.id # element.id
        /\ ~(t.type = element.type /\ Variant(t) = Variant(element))

(* C30: reset gives the element the default width and height of the       *)
(* template of the catalog it was instantiated from (the one with its      *)
(* asset id) and rotation 0, and changes nothing else; when no template    *)
(* matches, or no element has the instanceId, the collection is unchanged.  *)
C30_ResetToTemplateDefaults ==
    [][/\ AfterReset(elements, NoId) = elements
       /\ \A i \in 1..Len(elements) :
             HandleReset(i) =>
                /\ Len(elements') = Len(elements)
                /\ \A k \in 1..Len(elements) :
                      elements[k].instanceId # elements[i].instanceId => elements'[k] = elements[k]
                /\ \A t \in TemplatesOf(elements[i]) :
                      elements'[i] = Spread(elements[i],
                                            [width |-> t.width, height |-> t.height,
                                             rotation |-> 0])
                /\ NoTemplateMatches(elements[i]) => elements' = elements]_vars

(* A resized and turned ladder is back at the 15 x 5 of its template.      *)
C30_Witness ==
    \E i \in 1..Len(elements) :
        /\ elements[i].id = "ladder"
        /\ elements[i].width = Pct(15)
        /\ elements[i].height = Pct(5)
        /\ elements[i].rotation = 0

----------------------------------------------------------------------------
(* The rotate handle of the variant with transformation handles: a step    *)
(* that stores a square turned by 45 degrees, a player added from the       *)
(* palette, selection, and rotate gestures whose pointer goes straight up   *)
(* and down to the right of the centre of the pitch; a touch move that      *)
(* starts in the element drags it as well.                                  *)
PUp == At(50, 10)
PDiagonal == At(70, 60)
RotatePoints == {PUp, PDiagonal}

NextRotate ==
    \/ LoadEffect
    \/ PaletteAdd(BrokenAsset("player"), PCentre) /\ Len(elements') <= MaxElements
    \/ \E i \in 1..Len(elements) : ElementSelect(i)
    \/ \E i \in 1..Len(elements) : HandleRotate(i) /\ Len(rotating') <= MaxGestures
    \/ \E p \in RotatePoints, touched \in {NoId} \cup Ids(elements) :
          RotateMove(p, touched)
    \/ RotateUp

SpecRotate == InitHandles /\ [][NextRotate]_vars

(* The last registered rotate gesture of the element: its listener runs    *)
(* last.                                                                    *)
LastRotate(instanceId) ==
    rotating[CHOOSE k \in 1..Len(rotating) :
                /\ rotating[k].instanceId = instanceId
                /\ \A j \in (k + 1)..Len(rotating) : rotating[j].instanceId # instanceId]

Rotating(instanceId) == \E k \in 1..Len(rotating) : rotating[k].instanceId = instanceId

----------------------------------------------------------------------------
(* The samples the commands of a path name, in the order of the path. *)
RECURSIVE Named(_)
Named(pathData) ==
    IF pathData = <<>> THEN <<>>
    ELSE IF Len(pathData) = 1 THEN pathData[1].points
    ELSE LET half == Len(pathData) \div 2
         IN  Named(SubSeq(pathData, 1, half))
               \o Named(SubSeq(pathData, half + 1, Len(pathData)))

OddWave ==
    /\ mounted
    /\ \E line \in DribbleLines : Len(WavePoints(line)) % 2 = 1

----------------------------------------------------------------------------
(* C33: the perpendicular direction of every wave sample has unit length,  *)
(* and the coordinates of every sample are finite numbers, also for a      *)
(* segment of length zero: the division by the length of the segment is    *)
(* never a division by zero.                                                *)
C33_PerpendicularDefined ==
    \A line \in DribbleLines :
        LET wavePoints == WavePoints(line)
        IN  \A k \in 1..Len(wavePoints) :
               /\ wavePoints[k].squared # 0
               /\ wavePoints[k].perp.x * wavePoints[k].perp.x
                    + wavePoints[k].perp.y * wavePoints[k].perp.y = wavePoints[k].squared

----------------------------------------------------------------------------
(* C34: the selection is empty or names an element of the collection:      *)
(* selectedId is null or the instanceId of an element.                      *)
C34_SelectionNamesAnElement ==
    selectedId = NoId \/ selectedId \in Ids(elements)

----------------------------------------------------------------------------
(* Modes, tools and selection together: the mode toggles, the tools of    *)
(* the palette, clicks and presses on elements and lines, and the gestures  *)
(* on the pitch that create them.                                           *)
NextTools ==
    \/ LoadEffect
    \/ ModeEvents
    \/ \E i \in 1..Len(elements) : ElementClick(i)
    \/ \E i \in 1..Len(elements) : LineClick(i)
    \/ \E i \in 1..Len(elements) : ElementDown(i)
    \/ WindowUp
    \/ \E a \in Tile({"player"}) : HandleDrop(a, PInside) /\ Len(elements') <= MaxElements
    \/ PitchEvents({PInside}, {PInside, PFar}, MaxElements)
    \/ ToolbarEvents({"players", "arrows", "shapes"},
                     Tile({"player", "straight-dotted", "square-dash"}))

SpecTools == Init /\ [][NextTools]_vars

(* C35: move mode and delete mode are never on together; the line tool and *)
(* the shape tool are never selected together; and while delete mode is on  *)
(* nothing is selected.                                                     *)
C35_ModesAndToolsExclusive ==
    /\ ~(moveMode /\ deleteMode)
    /\ ~(selectedLineType # null /\ drawingShapeType # null)
    /\ deleteMode => selectedId = NoId

(* Delete mode was switched on while an element was selected and a tool    *)
(* had been chosen before: the selection and the tool are gone.             *)
C35_Witness ==
    /\ deleteMode
    /\ ~moveMode
    /\ elements # <<>>
    /\ selectedId = NoId
    /\ selectedLineType = null
    /\ drawingShapeType = null

----------------------------------------------------------------------------
(* The flags of the captures agree with what is captured. *)
CaptureConsistent ==
    /\ isDrawing <=> currentLine # <<>>
    /\ isDrawingShape <=> (drawingShapeStart # null /\ currentShapeDimensions # null)

(* C36: isDrawing is true exactly while currentLine is non-empty,          *)
(* isDrawingShape exactly while the anchor and the box of the shape are     *)
(* both set, and after the end of any gesture (mouse up or touch end on     *)
(* the pitch) all of them are back in their idle state.                     *)
C36_CaptureStateConsistent ==
    [][/\ CaptureConsistent'
       /\ (PitchMouseUp \/ \E p \in {PInside, PFar, POutside} : PitchTouchEnd(p))
             => GestureOver']_vars

----------------------------------------------------------------------------
(* The elements of before at the indices of S, in the order of before. *)
Remaining(before, S) ==
    [k \in 1..Cardinality(S) |->
        before[CHOOSE i \in S : Cardinality({j \in S : j < i}) = k - 1]]

(* after is before with some elements removed and the others in place. *)
OrderKept(before, after) ==
    \E S \in SUBSET (1..Len(before)) : after = Remaining(before, S)

(* after is before, or before with one new element at the end. *)
AppendedOrSame(before, after) ==
    \/ after = before
    \/ /\ Len(after) = Len(before) + 1
       /\ SubSeq(after, 1, Len(before)) = before

(* Placement, line commit and shape commit add at the end; delete and undo *)
(* keep the order of the elements that remain.                              *)
OrderedSteps ==
    /\ ((\E a \in Tile({"player"}), p \in {PInside, PFar} : HandleDrop(a, p))
          \/ PitchMouseUp
          \/ \E p \in {PInside, PFar} : PitchTouchEnd(p))
         => AppendedOrSame(elements, elements')
    /\ (HandleUndo \/ \E i \in 1..Len(elements) : ElementClick(i) \/ LineClick(i))
         => OrderKept(elements, elements')

(* A move of a drag keeps every element in its place and changes x and y   *)
(* only.                                                                    *)
DragMovesOnly ==
    \A p \in {PInside, PFar} :
        WindowMove(p) =>
           /\ Len(elements') = Len(elements)
           /\ \A i \in 1..Len(elements) :
                 /\ DOMAIN elements'[i] = DOMAIN elements[i]
                 /\ \A f \in DOMAIN elements[i] \ {"x", "y"} :
                       elements'[i][f] = elements[i][f]

(* A move of a drag changes one element at most. *)
DragMovesOne ==
    \A p \in {PInside, PFar} :
        WindowMove(p) =>
           Cardinality({i \in 1..Len(elements) : elements'[i] # elements[i]}) <= 1

(* C37: the collection is append-ordered: placement, line commit and shape *)
(* commit add the new element at the end; drag, delete and undo never       *)
(* change the relative order of the elements that remain; and a drag        *)
(* changes the x and y of the dragged element and nothing else in the       *)
(* collection.                                                              *)
C37_AppendOrderedCollection ==
    [][OrderedSteps /\ DragMovesOnly /\ DragMovesOne]_vars

(* The parts that hold: the order of the collection, and the fields a drag *)
(* writes.                                                                  *)
AppendOrdered == [][OrderedSteps]_vars
DragFrame == [][DragMovesOnly]_vars

----------------------------------------------------------------------------
(* View mode: the View / Edit button, the footer toolbar (mode toggles,    *)
(* tabs and tiles, the source of a palette drag), which is rendered in      *)
(* edit mode only, and the pointer and touch events of the pitch and its    *)
(* elements, which are rendered in both modes.                              *)
FooterEvents ==
    \/ ~isViewMode /\ ToggleMoveMode
    \/ ~isViewMode /\ ToggleDeleteMode
    \/ \E t \in {"players", "arrows"} : ~isViewMode /\ TabClick(t)
    \/ \E a \in Tile({"player", "straight-dotted"}) : ~isViewMode /\ PaletteClick(a)
    \/ \E a \in Tile({"player"}) :
          ~isViewMode /\ HandleDrop(a, PInside) /\ Len(elements') <= 1

PitchActions ==
    \/ PitchEvents({PInside}, {PInside, PFar}, MaxElements)
    \/ \E i \in 1..Len(elements) : ElementClick(i)
    \/ \E i \in 1..Len(elements) : LineClick(i)

NextView ==
    \/ LoadEffect
    \/ ToggleViewMode
    \/ FooterEvents
    \/ PitchActions

SpecView == Init /\ [][NextView]_vars

(* C38: while view mode is on the diagram is read-only: no pointer or      *)
(* touch action on the pitch (a tap on an element or a line, a line or      *)
(* shape gesture, a touch placement) changes the elements or the paths.     *)
C38_ViewModeReadOnly ==
    [][(isViewMode /\ PitchActions) => UNCHANGED << elements, paths >>]_vars

----------------------------------------------------------------------------
(* The steps of the drill: the other pages of the application call         *)
(* setCurrentDrill, addStep and updateStep while the designer is closed,    *)
(* the designer loads the step of its route and saves it.                   *)
MaxSteps == 3

StepIds == {"step-1", "step-2", "step-9"}

NewSteps ==
    {[id |-> "step-1", title |-> "Step 1"],
     [id |-> "step-2", title |-> "Step 2", canvasData |-> StoredCanvas]}

Patches ==
    {[title |-> "Renamed"],
     [canvasData |-> [elements |-> <<>>, paths |-> <<>>]],
     [title |-> "Renamed", objective |-> "Pressing"]}

DrillData ==
    {null,
     [id |-> "drill-1", title |-> "Drill", steps |-> <<>>],
     DrillOf(StoredCanvas),
     [id |-> "drill-1", title |-> "Drill",
      steps |-> << [id |-> "step-2", title |-> "Step 2"],
                   [id |-> "step-1", title |-> "Step 1", canvasData |-> StoredCanvas] >>]}

(* The context holds drill after a call that is made while the designer    *)
(* is closed.                                                               *)
ContextHolds(drill) ==
    /\ ~mounted
    /\ currentDrill' = drill
    /\ canvasData' = CanvasOf(drill)
    /\ UNCHANGED << mounted, now, elements, paths, selectedId, activeTab,
                    selectedColor, touchVars, lineVars, shapeVars, modeVars,
                    dragging >>
    /\ undoRun' = null
    /\ OtherEvent

SetCurrentDrill(drill) == ContextHolds(drill)

(* addStep: steps: [...currentDrill.steps, step] when there is a drill. *)
AddStep(step) ==
    ContextHolds(IF currentDrill = null THEN currentDrill
                 ELSE [currentDrill EXCEPT !.steps = Append(@, step)])

(* A call of updateStep from a page other than the designer. *)
UpdateStepCall(stepId, updatedStep) ==
    ContextHolds(UpdateStep(currentDrill, stepId, updatedStep))

(* The number of steps of the drill, none without a drill. *)
StepsOf(drill) == IF drill = null THEN 0 ELSE Len(drill.steps)

InitDrill == \E drill \in DrillData : InitOf(drill)

NextDrill ==
    \/ \E drill \in DrillData : SetCurrentDrill(drill)
    \/ \E step \in NewSteps : AddStep(step) /\ StepsOf(currentDrill') <= MaxSteps
    \/ \E stepId \in StepIds, updatedStep \in Patches : UpdateStepCall(stepId, updatedStep)
    \/ LoadEffect
    \/ HandleClear
    \/ HandleSave

SpecDrill == InitDrill /\ [][NextDrill]_vars

(* before and after are the same step but for the fields of updatedStep,   *)
(* which after has with the values of updatedStep.                          *)
Merged(before, after, updatedStep) ==
    /\ DOMAIN after = DOMAIN before \cup DOMAIN updatedStep
    /\ \A f \in DOMAIN updatedStep : after[f] = updatedStep[f]
    /\ \A f \in DOMAIN before \ DOMAIN updatedStep : after[f] = before[f]

(* The drill after is the drill before with updatedStep merged over the    *)
(* steps with the id stepId and nothing else changed.                       *)
OnlyStepChanged(before, after, stepId, updatedStep) ==
    IF before = null THEN after = null
    ELSE /\ after # null
         /\ DOMAIN after = DOMAIN before
         /\ \A f \in DOMAIN before \ {"steps"} : after[f] = before[f]
         /\ Len(after.steps) = Len(before.steps)
         /\ \A i \in 1..Len(before.steps) :
               IF before.steps[i].id = stepId
                 THEN Merged(before.steps[i], after.steps[i], updatedStep)
                 ELSE after.steps[i] = before.steps[i]
         /\ (\A i \in 1..Len(before.steps) : before.steps[i].id # stepId)
               => after = before

(* C39: updateStep(stepId, patch) changes only the step of the current     *)
(* drill whose id is stepId, merging the patch over it: every other step,   *)
(* the number of steps and their order stay, and the call changes nothing   *)
(* when no step has the id or there is no current drill; the save of the    *)
(* designer is such a call with the collections of the page as canvasData.  *)
C39_UpdateStepChangesOneStep ==
    [][/\ \A stepId \in StepIds, updatedStep \in Patches :
             UpdateStepCall(stepId, updatedStep) =>
                OnlyStepChanged(currentDrill, currentDrill', stepId, updatedStep)
       /\ HandleSave =>
             OnlyStepChanged(currentDrill, currentDrill', RouteStepId,
                             [canvasData |-> [elements |-> elements, paths |-> paths]])]_vars

(* A drill of two steps in which the second was renamed and the first was  *)
(* not.                                                                     *)
C39_Witness ==
    /\ currentDrill # null
    /\ Len(currentDrill.steps) >= 2
    /\ currentDrill.steps[1] = [id |-> "step-2", title |-> "Step 2"]
    /\ currentDrill.steps[2].id = "step-1"
    /\ currentDrill.steps[2].title = "Renamed"
    /\ currentDrill.steps[2].canvasData = StoredCanvas

====
